---- MODULE Spec2Model ----
(***************************************************************************)
(* The configuration subsystem of the Epoch init system (src/src/config.c) *)
(* as a state machine: InitConfig parses epoch.conf line by line into the  *)
(* object table, de-duplicates priorities and scans the table's integrity; *)
(* ReloadConfig backs the live configuration up, tears it down, parses the *)
(* file again and either restores the backup or carries the runtime fields *)
(* over into the new table.                                                *)
(*                                                                         *)
(* Text is modelled at the level of words.  A word is a record             *)
(* [s |-> text, n |-> value]: n is the number an all-digit word denotes    *)
(* and -1 for any other word.  The value of a line (DelimCurr) is the      *)
(* sequence of its whitespace-separated words; <<>> is the empty string.   *)
(***************************************************************************)
EXTENDS Integers, Sequences, FiniteSets, TLC

VARIABLES
    Disk,                \* epoch.conf: the sequence of its lines
    ObjectTable,         \* the object list; <<>> is the NULL table
    RunlevelInheritance, \* list of [Inheriter, Inherited]
    PriorityAliasTree,   \* list of [Alias, Target], alive during a parse
    CurRunlevel,         \* a value; <<>> is the empty string
    EnableLogging, DisableCAD, AlignStatusReports, ShellEnabled, BlankLogOnBoot,
    Hostname,            \* a value; <<>> is the empty string
    WasRunBefore,        \* static of ScanConfigIntegrity
    Worker,              \* InitConfig: index of the line being parsed
    CurObj,              \* InitConfig: index of the current object, 0 is NULL
    TRoot,               \* ReloadConfig: backup of the object list
    RLIRoot,             \* ReloadConfig: backup of the inheritance list
    RunlevelBackup,      \* ReloadConfig: backup of CurRunlevel
    GlobalTriple,        \* ReloadConfig: the three saved toggles
    pc,                  \* where the program stands
    caller,              \* who called InitConfig: "boot" or "reload"
    ret,                 \* what the last InitConfig returned
    rret,                \* what the last ReloadConfig returned
    pre,                 \* the configuration at the entry of the running/last ReloadConfig
    call,                \* the last call of a lookup or edit function: its arguments and result
    nReloads,            \* ReloadConfig calls so far
    nWrites,             \* replacements of epoch.conf so far
    nEdits               \* EditConfigValue calls so far

globals == <<EnableLogging, DisableCAD, AlignStatusReports, ShellEnabled, BlankLogOnBoot,
            Hostname>>
parser  == <<Worker, CurObj, PriorityAliasTree>>
backup  == <<TRoot, RLIRoot, RunlevelBackup, GlobalTriple>>
vars == <<Disk, ObjectTable, RunlevelInheritance, CurRunlevel, globals, WasRunBefore,
          parser, backup, pc, caller, ret, rret, pre, call, nReloads, nWrites, nEdits>>

-----------------------------------------------------------------------------
(* Bounds of the checked scenarios. *)
MaxObjs == 3
MaxReloadObjs == 2
MaxInherit == 2
MaxPrio == 2
MaxPrioObjs == 4
MaxQueryObjs == 2
MaxQueryPrio == 2
MaxBlank == 2
MaxEdits == 1
MaxParseLines == 2
MaxBlockLines == 5
MaxRunlevels == 3
MaxReloads == 1
MaxWrites == 1

-----------------------------------------------------------------------------
(* Words, values and lines. *)
Str(s) == [s |-> s, n |-> -1]
Num(n) == [s |-> "0-9", n |-> n]
V(s) == <<Str(s)>>

\* One line of epoch.conf: the mark before the keyword ("" on a live line, "#"
\* or "# " on a line that is commented out, ">!>" or "<!<" on a line that
\* begins with a block-comment mark), the keyword it begins with, the
\* characters that follow the keyword before the separator, the separator (""
\* when there is none) and the words after it.  An empty line has the keyword "".  The lines of a file are joined by newlines, so a file ends
\* with a newline when its last line is empty.
L(key, val) == [hash |-> "", key |-> key, rest |-> "", sep |-> " ", val |-> val]

FAILURE == "FAILURE"
SUCCESS == "SUCCESS"
WARNING == "WARNING"

STOP_NONE == "STOP_NONE"
STOP_COMMAND == "STOP_COMMAND"
STOP_PID == "STOP_PID"
STOP_PIDFILE == "STOP_PIDFILE"

SIGTERM == "SIGTERM"

\* The compile-time default of epoch.h, used for a bad ShellEnabled value.
USE_SHELL_BY_DEFAULT == FALSE

\* strncmp(text, prefix, strlen(prefix)) == 0 over the words the model uses.
ProperPrefixes == { <<"PIDFILE", "PID">>, <<"PIDKILL", "PID">>, <<"NONESUCH", "NONE">> }
StartsWith(val, p) ==
    /\ val # <<>>
    /\ \/ val[1].s = p
       \/ <<val[1].s, p>> \in ProperPrefixes

\* AllNumeric of the whole value: a single all-digit word.
AllNumeric(val) == Len(val) = 1 /\ val[1].n >= 0
atoi(val) == val[1].n

\* GetLineDelim: FAILURE when the line ends before a separator, else the value.
GetLineDelim(line) == IF line.sep = "" THEN FAILURE ELSE SUCCESS

-----------------------------------------------------------------------------
(* The object table. *)
AddObjectToTable(T, ObjectID) ==
    Append(T, [ ObjectID |-> ObjectID,
                Started |-> FALSE,
                ObjectDescription |-> <<>>,
                ObjectStartCommand |-> <<>>,
                ObjectStopCommand |-> <<>>,
                ObjectReloadCommand |-> <<>>,
                ObjectPIDFile |-> <<>>,
                ObjectStartPriority |-> 0,
                ObjectStopPriority |-> 0,
                StopMode |-> STOP_NONE,
                CanStop |-> TRUE,
                ObjectPID |-> 0,
                TermSignal |-> SIGTERM,
                ObjectRunlevels |-> <<>>,
                Enabled |-> 2,
                HaltCmdOnly |-> FALSE,
                RawDescription |-> FALSE,
                IsService |-> FALSE,
                AutoRestart |-> FALSE,
                EmulNoWait |-> FALSE,
                ForceShell |-> FALSE ])

\* The index of the first object with the id, 0 when there is none.
LookupObjectInTable(T, ObjectID) ==
    IF \E i \in 1..Len(T) : T[i].ObjectID = ObjectID
    THEN CHOOSE i \in 1..Len(T) :
            /\ T[i].ObjectID = ObjectID
            /\ \A j \in 1..(i - 1) : T[j].ObjectID # ObjectID
    ELSE 0

RLInheritance_Add(R, Inheriter, Inherited) ==
    Append(R, [Inheriter |-> Inheriter, Inherited |-> Inherited])

\* RLInheritance_Check that follows stored pairs through one intermediate runlevel.
RLInheritance_Check_Chained(R, InRL, RL) ==
    \/ \E i \in 1..Len(R) : InRL = <<R[i].Inheriter>> /\ RL = R[i].Inherited
    \/ \E i, j \in 1..Len(R) :
          /\ InRL = <<R[i].Inheriter>>
          /\ R[i].Inherited = R[j].Inheriter
          /\ RL = R[j].Inherited

\* InRL is a value, RL a word of an object's runlevel list.
RLInheritance_Check(R, InRL, RL) ==
    \E i \in 1..Len(R) : InRL = <<R[i].Inheriter>> /\ RL = R[i].Inherited

ObjRL_CheckRunlevel(R, InRL, InObj, CountInherited) ==
    LET RLs == InObj.ObjectRunlevels IN
    \/ \E i \in 1..Len(RLs) : <<RLs[i]>> = InRL
    \/ /\ CountInherited
       /\ \E i \in 1..Len(RLs) : RLInheritance_Check(R, InRL, RLs[i])

ObjRL_AddRunlevel(InRL, InObj) ==
    [InObj EXCEPT !.ObjectRunlevels = Append(@, InRL)]

\* ObjRL_DelRunlevel: the first node whose text is InRL is unlinked and true is
\* returned; when it is the only node the whole list is released.  With no
\* such node, or no list, false is returned.
ObjRL_DelRunlevel(InRL, InObj) ==
    LET RLs == InObj.ObjectRunlevels
        hits == { i \in 1..Len(RLs) : RLs[i] = InRL }
    IN IF hits = {}
       THEN [o |-> InObj, result |-> FALSE]
       ELSE LET i == CHOOSE h \in hits : \A g \in hits : h <= g IN
            [o |-> [InObj EXCEPT !.ObjectRunlevels =
                       SubSeq(RLs, 1, i - 1) \o SubSeq(RLs, i + 1, Len(RLs))],
             result |-> TRUE]

ObjRL_ValidRunlevel(T, R, InRL) ==
    \E i \in 1..Len(T) : ~T[i].HaltCmdOnly /\ ObjRL_CheckRunlevel(R, InRL, T[i], TRUE)

\* The null pointer passed for "no runlevel": no text equals it.
NULL == <<[s |-> "", n |-> -2]>>

\* GetObjectByPriority that leaves halt-only objects out in both phases.
GetObjectByPriority_NoHaltOnly(T, R, ObjectRunlevel, WantStartPriority, ObjectPriority) ==
    LET hit(i) ==
            /\ \/ ObjectRunlevel = NULL
               \/ /\ ~T[i].HaltCmdOnly
                  /\ ObjRL_CheckRunlevel(R, ObjectRunlevel, T[i], TRUE)
            /\ (IF WantStartPriority THEN T[i].ObjectStartPriority
                ELSE T[i].ObjectStopPriority) = ObjectPriority
    IN IF \E i \in 1..Len(T) : hit(i)
       THEN CHOOSE i \in 1..Len(T) : hit(i) /\ \A j \in 1..(i - 1) : ~hit(j)
       ELSE 0

\* GetObjectByPriority: the index of the first object the loop accepts, 0 for NULL.
GetObjectByPriority(T, R, ObjectRunlevel, WantStartPriority, ObjectPriority) ==
    LET hit(i) ==
            /\ \/ ObjectRunlevel = NULL
               \/ /\ (WantStartPriority \/ ~T[i].HaltCmdOnly)
                  /\ ObjRL_CheckRunlevel(R, ObjectRunlevel, T[i], TRUE)
            /\ (IF WantStartPriority THEN T[i].ObjectStartPriority
                ELSE T[i].ObjectStopPriority) = ObjectPriority
    IN IF \E i \in 1..Len(T) : hit(i)
       THEN CHOOSE i \in 1..Len(T) : hit(i) /\ \A j \in 1..(i - 1) : ~hit(j)
       ELSE 0

\* GetHighestPriority that counts the objects with a priority in the phase.
GetHighestPriority_Count(T, WantStartPriority) ==
    Cardinality({ k \in 1..Len(T) :
                    (IF WantStartPriority THEN T[k].ObjectStartPriority
                     ELSE T[k].ObjectStopPriority) # 0 })

\* GetHighestPriority that looks at the start priorities in both phases.
GetHighestPriority_StartOnly(T, WantStartPriority) ==
    LET CurHighest[k \in 0..Len(T)] ==
            IF k = 0 THEN 0
            ELSE LET TempNum == T[k].ObjectStartPriority
                 IN IF TempNum > CurHighest[k - 1] THEN TempNum ELSE CurHighest[k - 1]
    IN IF T = <<>> THEN 0 ELSE CurHighest[Len(T)]

\* GetHighestPriority: 0 for the NULL table, else CurHighest after the loop
\* over the objects (CurHighest[k] is its value after the k-th object).
GetHighestPriority(T, WantStartPriority) ==
    LET CurHighest[k \in 0..Len(T)] ==
            IF k = 0 THEN 0
            ELSE LET TempNum == IF WantStartPriority THEN T[k].ObjectStartPriority
                                ELSE T[k].ObjectStopPriority
                 IN IF TempNum > CurHighest[k - 1] THEN TempNum ELSE CurHighest[k - 1]
    IN IF T = <<>> THEN 0 ELSE CurHighest[Len(T)]

PriorityAlias_Add(A, Alias, Target) ==
    IF \E i \in 1..Len(A) : A[i].Alias = Alias
    THEN A
    ELSE Append(A, [Alias |-> Alias, Target |-> Target])

PriorityAlias_Lookup(A, Alias) ==
    IF \E i \in 1..Len(A) : <<A[i].Alias>> = Alias
    THEN LET i == CHOOSE k \in 1..Len(A) :
                    /\ <<A[k].Alias>> = Alias
                    /\ \A j \in 1..(k - 1) : <<A[j].Alias>> # Alias
         IN A[i].Target
    ELSE 0

-----------------------------------------------------------------------------
(* InitConfig: the handlers of the directives.  st is the configuration the  *)
(* parse loop works on: T the object table, C the current object (CurObj),   *)
(* R the inheritance list, A the alias list, RL CurRunlevel, and the toggles.*)

TrueFalse(val, bad) ==
    IF val = V("true") THEN TRUE ELSE IF val = V("false") THEN FALSE ELSE bad

OnDisableCAD(st, val) == [st EXCEPT !.CAD = TrueFalse(val, TRUE)]
OnBlankLogOnBoot(st, val) == [st EXCEPT !.BLB = TrueFalse(val, FALSE)]
OnShellEnabled(st, val) == [st EXCEPT !.SE = TrueFalse(val, USE_SHELL_BY_DEFAULT)]
OnEnableLogging(st, val) == [st EXCEPT !.EL = TrueFalse(val, FALSE)]
OnAlignStatusReports(st, val) == [st EXCEPT !.ASR = TrueFalse(val, FALSE)]

\* RunlevelInherits <inheriter> <inherited>: exactly two words.
OnRunlevelInherits(st, val) ==
    IF Len(val) # 2 THEN st
    ELSE [st EXCEPT !.R = RLInheritance_Add(@, val[1], val[2])]

\* DefinePriority <alias> <integer>, refused once an object is open.
OnDefinePriority(st, val) ==
    IF Len(val) # 2 THEN st
    ELSE IF ~AllNumeric(<<val[2]>>) THEN st
    ELSE [st EXCEPT !.A = PriorityAlias_Add(@, val[1], atoi(<<val[2]>>))]

OnDefaultRunlevel(st, val) == [st EXCEPT !.RL = val]

\* Hostname <name>: the value is copied, and erased again when it holds a
\* space or a tab (the form "FILE <path>" reads the name from another file).
OnHostname(st, val) == [st EXCEPT !.HN = IF Len(val) > 1 THEN <<>> ELSE val]

OnObjectID(st, val) ==
    [st EXCEPT !.T = AddObjectToTable(@, val), !.C = Len(st.T) + 1]

OnObjectEnabled(st, val) ==
    IF val = V("true") THEN [st EXCEPT !.T[st.C].Enabled = 1]
    ELSE IF val = V("false") THEN [st EXCEPT !.T[st.C].Enabled = 0]
    ELSE st

\* One word of an ObjectOptions line applied to the object o.
ApplyOption(o, w, shell) ==
    CASE w.s = "NOWAIT" -> [o EXCEPT !.EmulNoWait = TRUE]
      [] w.s = "HALTONLY" ->
            [o EXCEPT !.Started = TRUE, !.CanStop = FALSE, !.HaltCmdOnly = TRUE]
      [] w.s = "PERSISTENT" -> [o EXCEPT !.CanStop = FALSE]
      [] w.s = "RAWDESCRIPTION" -> [o EXCEPT !.RawDescription = TRUE]
      [] w.s = "SERVICE" -> [o EXCEPT !.IsService = TRUE]
      [] w.s = "AUTORESTART" -> [o EXCEPT !.AutoRestart = TRUE]
      [] w.s = "FORCESHELL" -> IF shell THEN [o EXCEPT !.ForceShell = TRUE] ELSE o
      [] OTHER -> o

KnownOptions ==
    {"NOWAIT", "HALTONLY", "PERSISTENT", "RAWDESCRIPTION", "SERVICE", "AUTORESTART",
     "FORCESHELL"}

\* The do-while over the words of the line; an unknown word ends it (break).
RECURSIVE ApplyOptions(_, _, _, _)
ApplyOptions(o, val, k, shell) ==
    IF k > Len(val) THEN o
    ELSE IF val[k].s \notin KnownOptions THEN o
    ELSE ApplyOptions(ApplyOption(o, val[k], shell), val, k + 1, shell)

\* An empty value still runs the loop body once, on the empty word.
OnObjectOptions(st, val) ==
    [st EXCEPT !.T[st.C] = ApplyOptions(@, IF val = <<>> THEN V("") ELSE val, 1, st.SE)]

OnObjectDescription(st, val) == [st EXCEPT !.T[st.C].ObjectDescription = val]
OnObjectStartCommand(st, val) == [st EXCEPT !.T[st.C].ObjectStartCommand = val]
OnObjectReloadCommand(st, val) == [st EXCEPT !.T[st.C].ObjectReloadCommand = val]

OnObjectStopCommand(st, val) ==
    IF StartsWith(val, "PIDFILE")
    THEN [st EXCEPT !.T[st.C].ObjectPIDFile = Tail(val), !.T[st.C].StopMode = STOP_PIDFILE]
    ELSE IF StartsWith(val, "PID") THEN [st EXCEPT !.T[st.C].StopMode = STOP_PID]
    ELSE IF StartsWith(val, "NONE") THEN [st EXCEPT !.T[st.C].StopMode = STOP_NONE]
    ELSE [st EXCEPT !.T[st.C].StopMode = STOP_COMMAND, !.T[st.C].ObjectStopCommand = val]

\* The priority a value denotes: a number, else an alias, else 0 (leave as is).
OnObjectStartPriority(st, val) ==
    IF ~AllNumeric(val)
    THEN LET TmpTarget == PriorityAlias_Lookup(st.A, val) IN
         IF TmpTarget = 0 THEN st
         ELSE [st EXCEPT !.T[st.C].ObjectStartPriority = TmpTarget]
    ELSE [st EXCEPT !.T[st.C].ObjectStartPriority = atoi(val)]

OnObjectStopPriority(st, val) ==
    IF ~AllNumeric(val)
    THEN LET TmpTarget == PriorityAlias_Lookup(st.A, val) IN
         IF TmpTarget = 0 THEN st
         ELSE [st EXCEPT !.T[st.C].ObjectStopPriority = TmpTarget]
    ELSE [st EXCEPT !.T[st.C].ObjectStopPriority = atoi(val)]

RECURSIVE AddRunlevels(_, _, _)
AddRunlevels(o, val, k) ==
    IF k > Len(val) THEN o
    ELSE AddRunlevels(ObjRL_AddRunlevel(val[k], o), val, k + 1)

OnObjectRunlevels(st, val) ==
    [st EXCEPT !.T[st.C] = AddRunlevels(@, IF val = <<>> THEN V("") ELSE val, 1)]

PerObject ==
    {"ObjectEnabled", "ObjectOptions", "ObjectDescription", "ObjectStartCommand",
     "ObjectReloadCommand", "ObjectStopCommand", "ObjectStartPriority",
     "ObjectStopPriority", "ObjectRunlevels"}

\* The if/else ladder of the parse loop for one line.
Dispatch(st, line) ==
    LET key == line.key
        val == line.val
        ok  == GetLineDelim(line) = SUCCESS
    IN
    CASE line.hash # "" -> st
      [] key = "DisableCAD" -> IF ok THEN OnDisableCAD(st, val) ELSE st
      [] key = "BlankLogOnBoot" -> IF ok THEN OnBlankLogOnBoot(st, val) ELSE st
      [] key = "ShellEnabled" -> IF ok THEN OnShellEnabled(st, val) ELSE st
      [] key = "EnableLogging" -> IF ok THEN OnEnableLogging(st, val) ELSE st
      [] key = "RunlevelInherits" -> IF ok THEN OnRunlevelInherits(st, val) ELSE st
      [] key = "DefinePriority" ->
            IF st.C # 0 THEN st
            ELSE IF ok THEN OnDefinePriority(st, val) ELSE st
      [] key = "AlignStatusReports" -> IF ok THEN OnAlignStatusReports(st, val) ELSE st
      [] key = "DefaultRunlevel" ->
            IF st.RL # <<>> THEN st
            ELSE IF st.C # 0 THEN st
            ELSE IF ok THEN OnDefaultRunlevel(st, val) ELSE st
      [] key = "Hostname" ->
            IF st.C # 0 THEN st
            ELSE IF ok THEN OnHostname(st, val) ELSE st
      [] key = "ObjectID" -> IF ok THEN OnObjectID(st, val) ELSE st
      [] key \in PerObject ->
            IF st.C = 0 THEN st
            ELSE IF ~ok THEN st
            ELSE (CASE key = "ObjectEnabled" -> OnObjectEnabled(st, val)
                   [] key = "ObjectOptions" -> OnObjectOptions(st, val)
                   [] key = "ObjectDescription" -> OnObjectDescription(st, val)
                   [] key = "ObjectStartCommand" -> OnObjectStartCommand(st, val)
                   [] key = "ObjectReloadCommand" -> OnObjectReloadCommand(st, val)
                   [] key = "ObjectStopCommand" -> OnObjectStopCommand(st, val)
                   [] key = "ObjectStartPriority" -> OnObjectStartPriority(st, val)
                   [] key = "ObjectStopPriority" -> OnObjectStopPriority(st, val)
                   [] key = "ObjectRunlevels" -> OnObjectRunlevels(st, val))
      [] OTHER -> st

-----------------------------------------------------------------------------
(* InitConfig after the parse loop: the priority de-duplication. *)

\* BumpStart that moves CurObj up and leaves the other objects where they are.
BumpStart_NoShift(T, ow, co) ==
    [T EXCEPT ![co].ObjectStartPriority = @ + 1]

\* ++CurObj->ObjectStartPriority, then every other object but ObjWorker whose
\* priority is at least the new value moves up by one as well.
BumpStart(T, ow, co) ==
    LET p == T[co].ObjectStartPriority + 1 IN
    [k \in 1..Len(T) |->
        IF k = co THEN [T[k] EXCEPT !.ObjectStartPriority = p]
        ELSE IF k # ow /\ T[k].ObjectStartPriority >= p
             THEN [T[k] EXCEPT !.ObjectStartPriority = @ + 1]
             ELSE T[k]]

BumpStop(T, ow, co) ==
    LET p == T[co].ObjectStopPriority + 1 IN
    [k \in 1..Len(T) |->
        IF k = co THEN [T[k] EXCEPT !.ObjectStopPriority = p]
        ELSE IF k # ow /\ T[k].ObjectStopPriority >= p
             THEN [T[k] EXCEPT !.ObjectStopPriority = @ + 1]
             ELSE T[k]]

\* DedupPair with the stop-priority half of the loop body left out.
DedupPair_StartOnly(T, ow, co) ==
    IF /\ T[ow].ObjectStartPriority # 0
       /\ ow # co
       /\ T[co].ObjectStartPriority = T[ow].ObjectStartPriority
    THEN BumpStart(T, ow, co) ELSE T

\* The body of the inner loop for ObjWorker = ow and CurObj = co.
DedupPair(T, ow, co) ==
    LET T1 == IF /\ T[ow].ObjectStartPriority # 0
                 /\ ow # co
                 /\ T[co].ObjectStartPriority = T[ow].ObjectStartPriority
              THEN BumpStart(T, ow, co) ELSE T
    IN IF /\ T1[ow].ObjectStopPriority # 0
          /\ ow # co
          /\ T1[co].ObjectStopPriority = T1[ow].ObjectStopPriority
       THEN BumpStop(T1, ow, co) ELSE T1

RECURSIVE DedupLoop(_, _, _)
DedupLoop(T, ow, co) ==
    IF ow > Len(T) THEN T
    ELSE IF co > Len(T) THEN DedupLoop(T, ow + 1, 1)
    ELSE DedupLoop(DedupPair(T, ow, co), ow, co + 1)

DedupPriorities(T) == DedupLoop(T, 1, 1)

\* NOWAIT is emulated by an ampersand after the start command.
EmulateNoWait(T) ==
    [k \in 1..Len(T) |->
        LET cmd == T[k].ObjectStartCommand IN
        IF T[k].EmulNoWait /\ cmd # <<>> /\ cmd[Len(cmd)].s # "&"
        THEN [T[k] EXCEPT !.ObjectStartCommand = Append(cmd, Str("&"))]
        ELSE T[k]]

-----------------------------------------------------------------------------
(* ScanConfigIntegrity. *)
MissingDescription == V("[missing description]")

\* ScanObject that warns about a missing start command without disabling the object.
ScanObject_NoDisable(T, k) ==
    LET o0 == T[k]
        noDesc == o0.ObjectDescription = <<>>
        o1 == IF noDesc THEN [o0 EXCEPT !.ObjectDescription = MissingDescription] ELSE o0
        noCmds == /\ o1.ObjectStartCommand = <<>>
                  /\ o1.ObjectStopCommand = <<>>
                  /\ o1.StopMode = STOP_COMMAND
        noStart == ~o1.HaltCmdOnly /\ o1.ObjectStartCommand = <<>>
        noRL == o1.ObjectRunlevels = <<>> /\ ~o1.HaltCmdOnly
        noEnabled == o1.Enabled = 2
        haltPID == o1.StopMode = STOP_PID /\ o1.HaltCmdOnly
        o3 == IF haltPID THEN [o1 EXCEPT !.Enabled = 0] ELSE o1
        dup == \E j \in 1..Len(T) : j # k /\ T[j].ObjectID = o0.ObjectID
    IN [ o |-> o3,
         sets |-> (IF noDesc THEN <<WARNING>> ELSE <<>>)
               \o (IF noCmds THEN <<FAILURE>> ELSE <<>>)
               \o (IF noStart THEN <<WARNING>> ELSE <<>>)
               \o (IF noRL THEN <<FAILURE>> ELSE <<>>)
               \o (IF noEnabled THEN <<FAILURE>> ELSE <<>>)
               \o (IF haltPID THEN <<WARNING>> ELSE <<>>)
               \o (IF dup THEN <<FAILURE>> ELSE <<>>) ]

\* The checks of one object, in the order of the code: the object as they leave
\* it and the values they assign to RetState, in order.
ScanObject(T, k) ==
    LET o0 == T[k]
        noDesc == o0.ObjectDescription = <<>>
        o1 == IF noDesc THEN [o0 EXCEPT !.ObjectDescription = MissingDescription] ELSE o0
        noCmds == /\ o1.ObjectStartCommand = <<>>
                  /\ o1.ObjectStopCommand = <<>>
                  /\ o1.StopMode = STOP_COMMAND
        noStart == ~o1.HaltCmdOnly /\ o1.ObjectStartCommand = <<>>
        o2 == IF noStart THEN [o1 EXCEPT !.Enabled = 0] ELSE o1
        noRL == o2.ObjectRunlevels = <<>> /\ ~o2.HaltCmdOnly
        noEnabled == o2.Enabled = 2
        haltPID == o2.StopMode = STOP_PID /\ o2.HaltCmdOnly
        o3 == IF haltPID THEN [o2 EXCEPT !.Enabled = 0] ELSE o2
        dup == \E j \in 1..Len(T) : j # k /\ T[j].ObjectID = o0.ObjectID
    IN [ o |-> o3,
         sets |-> (IF noDesc THEN <<WARNING>> ELSE <<>>)
               \o (IF noCmds THEN <<FAILURE>> ELSE <<>>)
               \o (IF noStart THEN <<WARNING>> ELSE <<>>)
               \o (IF noRL THEN <<FAILURE>> ELSE <<>>)
               \o (IF noEnabled THEN <<FAILURE>> ELSE <<>>)
               \o (IF haltPID THEN <<WARNING>> ELSE <<>>)
               \o (IF dup THEN <<FAILURE>> ELSE <<>>) ]

\* RetState after an object's checks: the last value assigned, if any.
LastSet(RetState, sets) == IF sets = <<>> THEN RetState ELSE sets[Len(sets)]

RECURSIVE ScanObjects(_, _, _)
ScanObjects(T, k, RetState) ==
    IF k > Len(T) THEN [T |-> T, RetState |-> RetState]
    ELSE LET r == ScanObject(T, k) IN
         ScanObjects([T EXCEPT ![k] = r.o], k + 1, LastSet(RetState, r.sets))

-----------------------------------------------------------------------------
(* The program's steps. *)

StOf ==
    [ T |-> ObjectTable, C |-> CurObj, R |-> RunlevelInheritance,
      A |-> PriorityAliasTree, RL |-> CurRunlevel,
      EL |-> EnableLogging, CAD |-> DisableCAD, ASR |-> AlignStatusReports,
      SE |-> ShellEnabled, BLB |-> BlankLogOnBoot, HN |-> Hostname,
      LC |-> FALSE ]

\* One pass of the loop with the block-comment marks never looked at.
ParseLine_NoBlock(st, line) == Dispatch(st, line)

\* One pass of the loop.  LongComment (field LC) is a local of InitConfig that
\* starts false.  A line that begins with "<!<" is skipped whole when no block
\* is open; otherwise it closes the block and what follows the mark goes down
\* the ladder.  While a block is open every other line is skipped, and a line
\* that begins with ">!>" opens one.  A block still open after the last line
\* draws a warning and nothing else.
ParseLine(st, line) ==
    IF line.hash = "<!<"
    THEN (IF ~st.LC THEN st
          ELSE Dispatch([st EXCEPT !.LC = FALSE], [line EXCEPT !.hash = ""]))
    ELSE IF st.LC THEN st
    ELSE IF line.hash = ">!>" THEN [st EXCEPT !.LC = TRUE]
    ELSE Dispatch(st, line)

\* The do-while over the lines of the file.
RECURSIVE ParseLines(_, _, _)
ParseLines(st, lines, k) ==
    IF k > Len(lines) THEN st
    ELSE ParseLines(ParseLine(st, lines[k]), lines, k + 1)

\* Where InitConfig's caller goes on with the returned status.
AfterInitConfig(status) ==
    IF caller = "boot"
    THEN (IF status = FAILURE THEN "halted" ELSE "idle")
    ELSE "rl_ret"

\* InitConfig up to the end of the parse loop: an empty file returns FAILURE at once.
IC_Parse ==
    /\ pc = "ic_parse"
    /\ IF Disk = <<>>
       THEN /\ ret' = FAILURE
            /\ pc' = AfterInitConfig(FAILURE)
            /\ UNCHANGED <<ObjectTable, RunlevelInheritance, CurRunlevel, globals, parser>>
       ELSE LET st == ParseLines([StOf EXCEPT !.C = 0], Disk, 1) IN
            /\ ObjectTable' = st.T
            /\ CurObj' = st.C
            /\ RunlevelInheritance' = st.R
            /\ PriorityAliasTree' = st.A
            /\ CurRunlevel' = st.RL
            /\ EnableLogging' = st.EL
            /\ DisableCAD' = st.CAD
            /\ AlignStatusReports' = st.ASR
            /\ ShellEnabled' = st.SE
            /\ BlankLogOnBoot' = st.BLB
            /\ Hostname' = st.HN
            /\ Worker' = Len(Disk)
            /\ pc' = "ic_post"
            /\ ret' = ret
    /\ UNCHANGED <<Disk, WasRunBefore, backup, caller, rret, pre, call, nReloads, nWrites, nEdits>>

\* The de-duplication and NOWAIT loops read ObjectTable->Next without a NULL
\* test: with no object in the file the behaviour is undefined, and the build
\* either faults there or goes on as if the loops were empty.
IC_Post ==
    /\ pc = "ic_post"
    /\ \E outcome \in (IF ObjectTable = <<>> THEN {"fault", "skip"} ELSE {"run"}) :
          /\ pc' = IF outcome = "fault" THEN "crashed" ELSE "ic_scan"
          /\ ObjectTable' = IF outcome = "run"
                            THEN EmulateNoWait(DedupPriorities(ObjectTable))
                            ELSE ObjectTable
    /\ PriorityAliasTree' = <<>>
    /\ UNCHANGED <<Disk, RunlevelInheritance, CurRunlevel, globals, WasRunBefore, Worker,
                   CurObj, backup, caller, ret, rret, pre, call, nReloads, nWrites, nEdits>>

\* What the operator may type at the runlevel prompt.
PromptInputs == { <<>>, V("default"), V("other") }

\* ScanConfigIntegrity and the switch on its result, up to the return with
\* SUCCESS or WARNING or to the prompt of the FAILURE case.
\* answer is the operator's final answer at the boot prompt: a runlevel that is
\* accepted, or the empty line that starts the emergency shell.
ScanAnswers ==
    IF /\ ObjectTable # <<>>
       /\ (CurRunlevel = <<>> \/ ~ObjRL_ValidRunlevel(ObjectTable, RunlevelInheritance, CurRunlevel))
       /\ ~WasRunBefore
    THEN { a \in PromptInputs :
             a = <<>> \/ ObjRL_ValidRunlevel(ObjectTable, RunlevelInheritance, a) }
    ELSE { CurRunlevel }

\* ScanConfigIntegrity without the test of the current runlevel.
ScanConfigIntegrity_NoRunlevelTest(answer) ==
    IF ObjectTable = <<>>
    THEN [T |-> ObjectTable, RL |-> CurRunlevel, W |-> WasRunBefore, RetState |-> FAILURE]
    ELSE LET r == ScanObjects(ObjectTable, 1, SUCCESS) IN
         [T |-> r.T, RL |-> answer, W |-> TRUE, RetState |-> r.RetState]

ScanConfigIntegrity(answer) ==
    IF ObjectTable = <<>>
    THEN [T |-> ObjectTable, RL |-> CurRunlevel, W |-> WasRunBefore, RetState |-> FAILURE]
    ELSE IF ~ObjRL_ValidRunlevel(ObjectTable, RunlevelInheritance, answer)
    THEN [T |-> ObjectTable, RL |-> CurRunlevel, W |-> WasRunBefore, RetState |-> FAILURE]
    ELSE LET r == ScanObjects(ObjectTable, 1, SUCCESS) IN
         [T |-> r.T, RL |-> answer, W |-> TRUE, RetState |-> r.RetState]

IC_Scan ==
    /\ pc = "ic_scan"
    /\ \E answer \in ScanAnswers :
          IF ObjectTable # <<>> /\ ~WasRunBefore /\ answer = <<>>
          THEN \* EmergencyShell
               /\ pc' = "shell"
               /\ UNCHANGED <<ObjectTable, RunlevelInheritance, CurRunlevel, WasRunBefore, ret>>
          ELSE LET r == ScanConfigIntegrity(answer) IN
               /\ WasRunBefore' = r.W
               /\ CurRunlevel' = r.RL
               /\ ObjectTable' = r.T
               /\ UNCHANGED RunlevelInheritance
               /\ IF r.RetState = FAILURE
                  THEN \* the prompt for the dump is printed, getchar() waits
                       /\ pc' = "ic_dump"
                       /\ UNCHANGED ret
                  ELSE /\ ret' = r.RetState
                       /\ pc' = AfterInitConfig(r.RetState)
    /\ UNCHANGED <<Disk, globals, parser, backup, caller, rret, pre, call, nReloads, nWrites, nEdits>>

\* What the operator may strike at the prompt for the dump of epoch.conf.
DumpInputs == { "d", "\n" }

\* The FAILURE case of the switch: getchar() reads the operator's key from
\* standard input, whoever called InitConfig; the text is dumped or not, then
\* ShutdownConfig runs and InitConfig returns FAILURE.
IC_Dump ==
    /\ pc = "ic_dump"
    /\ \E key \in DumpInputs :
          /\ ObjectTable' = <<>>
          /\ RunlevelInheritance' = <<>>
          /\ ret' = FAILURE
          /\ pc' = AfterInitConfig(FAILURE)
    /\ UNCHANGED <<Disk, CurRunlevel, globals, WasRunBefore, parser, backup, caller, rret, pre,
                   call, nReloads, nWrites, nEdits>>

-----------------------------------------------------------------------------
(* ReloadConfig. *)

\* BackupObjects that copies the nodes but not their runlevel lists, which
\* ShutdownConfig then releases.
BackupObjects_Shallow(T) ==
    [k \in 1..Len(T) |-> [T[k] EXCEPT !.ObjectRunlevels = <<>>]]

\* The backup of the object list: every node is copied as a unit and its
\* runlevel list is copied name by name.
BackupObjects(T) ==
    [k \in 1..Len(T) |->
        [T[k] EXCEPT !.ObjectRunlevels =
            [j \in 1..Len(T[k].ObjectRunlevels) |-> T[k].ObjectRunlevels[j]]]]

\* The backup of the inheritance list: the loop copies every node into the
\* root of the backup, whose pointer it never advances, so the root ends up
\* holding the last pair, followed by the fresh end node.
BackupInheritance(R) == IF R = <<>> THEN <<>> ELSE <<R[Len(R)]>>

Snapshot ==
    [ T |-> ObjectTable, R |-> RunlevelInheritance, RL |-> CurRunlevel,
      EL |-> EnableLogging, CAD |-> DisableCAD, ASR |-> AlignStatusReports,
      SE |-> ShellEnabled, BLB |-> BlankLogOnBoot, HN |-> Hostname, Disk |-> Disk ]

RL_Backup ==
    /\ pc = "idle"
    /\ nReloads < MaxReloads
    /\ nReloads' = nReloads + 1
    /\ RunlevelBackup' = CurRunlevel
    /\ TRoot' = BackupObjects(ObjectTable)
    /\ RLIRoot' = BackupInheritance(RunlevelInheritance)
    /\ pre' = Snapshot
    /\ rret' = "running"
    /\ pc' = "rl_shutdown"
    /\ UNCHANGED <<Disk, ObjectTable, RunlevelInheritance, CurRunlevel, globals,
                   WasRunBefore, parser, GlobalTriple, caller, ret, call, nWrites, nEdits>>

\* RL_Shutdown with a ShutdownConfig that also clears the current runlevel.
RL_Shutdown_ClearsRunlevel ==
    /\ pc = "rl_shutdown"
    /\ ObjectTable' = <<>>
    /\ RunlevelInheritance' = <<>>
    /\ CurRunlevel' = <<>>
    /\ GlobalTriple' = <<EnableLogging, DisableCAD, AlignStatusReports>>
    /\ caller' = "reload"
    /\ pc' = "ic_parse"
    /\ UNCHANGED <<Disk, globals, WasRunBefore, parser, TRoot, RLIRoot,
                   RunlevelBackup, ret, rret, pre, call, nReloads, nWrites, nEdits>>

\* ShutdownConfig, then the three toggles are put aside and InitConfig is called.
RL_Shutdown ==
    /\ pc = "rl_shutdown"
    /\ ObjectTable' = <<>>
    /\ RunlevelInheritance' = <<>>
    /\ GlobalTriple' = <<EnableLogging, DisableCAD, AlignStatusReports>>
    /\ caller' = "reload"
    /\ pc' = "ic_parse"
    /\ UNCHANGED <<Disk, CurRunlevel, globals, WasRunBefore, parser, TRoot, RLIRoot,
                   RunlevelBackup, ret, rret, pre, call, nReloads, nWrites, nEdits>>

\* The loop that carries Started and ObjectPID of the backup's objects over to
\* the objects LookupObjectInTable finds for their ids.
RECURSIVE RestoreStatuses(_, _, _)
RestoreStatuses(T, B, k) ==
    IF k > Len(B) THEN T
    ELSE LET i == LookupObjectInTable(T, B[k].ObjectID) IN
         RestoreStatuses(
            IF i = 0 THEN T
            ELSE [T EXCEPT ![i].Started = B[k].Started, ![i].ObjectPID = B[k].ObjectPID],
            B, k + 1)

\* RL_Finish that leaves the three toggles as the new file set them.
RL_Finish_NoRestore ==
    /\ pc = "rl_ret"
    /\ IF ret = FAILURE
       THEN /\ ObjectTable' = TRoot
            /\ RunlevelInheritance' = RLIRoot
            /\ CurRunlevel' = RunlevelBackup
            /\ rret' = FAILURE
       ELSE /\ ObjectTable' = RestoreStatuses(ObjectTable, TRoot, 1)
            /\ UNCHANGED <<RunlevelInheritance, CurRunlevel>>
            /\ rret' = SUCCESS
    /\ pc' = "idle"
    /\ UNCHANGED <<Disk, globals, WasRunBefore, parser, backup,
                   caller, ret, pre, call, nReloads, nWrites, nEdits>>

\* ReloadConfig after InitConfig returned.
RL_Finish ==
    /\ pc = "rl_ret"
    /\ IF ret = FAILURE
       THEN /\ ObjectTable' = TRoot
            /\ RunlevelInheritance' = RLIRoot
            /\ CurRunlevel' = RunlevelBackup
            /\ rret' = FAILURE
       ELSE /\ ObjectTable' = RestoreStatuses(ObjectTable, TRoot, 1)
            /\ UNCHANGED <<RunlevelInheritance, CurRunlevel>>
            /\ rret' = SUCCESS
    /\ EnableLogging' = GlobalTriple[1]
    /\ DisableCAD' = GlobalTriple[2]
    /\ AlignStatusReports' = GlobalTriple[3]
    /\ pc' = "idle"
    /\ UNCHANGED <<Disk, ShellEnabled, BlankLogOnBoot, Hostname, WasRunBefore, parser, backup,
                   caller, ret, pre, call, nReloads, nWrites, nEdits>>

-----------------------------------------------------------------------------
(* The collaborators. *)

\* The pid the supervisor records for the k-th object it starts.
PidOf(k) == 100 + k

\* The supervisor starts or stops an object between two calls of the subsystem.
SupervisorStart ==
    /\ pc = "idle"
    /\ nReloads < MaxReloads
    /\ \E k \in 1..Len(ObjectTable) :
          /\ ~ObjectTable[k].Started
          /\ ObjectTable' = [ObjectTable EXCEPT ![k].Started = TRUE,
                                                ![k].ObjectPID = PidOf(k)]
    /\ UNCHANGED <<Disk, RunlevelInheritance, CurRunlevel, globals, WasRunBefore, parser,
                   backup, pc, caller, ret, rret, pre, call, nReloads, nWrites, nEdits>>

SupervisorStop ==
    /\ pc = "idle"
    /\ nReloads < MaxReloads
    /\ \E k \in 1..Len(ObjectTable) :
          /\ ObjectTable[k].Started
          /\ ObjectTable' = [ObjectTable EXCEPT ![k].Started = FALSE,
                                                ![k].ObjectPID = 0]
    /\ UNCHANGED <<Disk, RunlevelInheritance, CurRunlevel, globals, WasRunBefore, parser,
                   backup, pc, caller, ret, rret, pre, call, nReloads, nWrites, nEdits>>

\* The runlevels and priorities the supervisor asks about.
QueryRunlevels == { V("default"), V("other"), V("third") }
QueryPriorities == 0..(MaxQueryPrio + 1)

\* The supervisor looks for the object of a runlevel and priority.
GetObjectByPriority_Call ==
    /\ pc = "idle"
    /\ \E rl \in QueryRunlevels \cup {NULL}, want \in BOOLEAN, p \in QueryPriorities :
          call' = [ op |-> "GetObjectByPriority", rl |-> rl, want |-> want, p |-> p,
                    result |-> GetObjectByPriority(ObjectTable, RunlevelInheritance, rl, want, p) ]
    /\ UNCHANGED <<Disk, ObjectTable, RunlevelInheritance, CurRunlevel, globals, WasRunBefore,
                   parser, backup, pc, caller, ret, rret, pre, nReloads, nWrites, nEdits>>

\* The supervisor asks for the highest priority of a phase; there may be no
\* table, as after a parse that failed at boot.
GetHighestPriority_Call ==
    /\ pc \in {"idle", "halted"}
    /\ \E want \in BOOLEAN :
          call' = [ op |-> "GetHighestPriority", want |-> want,
                    result |-> GetHighestPriority(ObjectTable, want) ]
    /\ UNCHANGED <<Disk, ObjectTable, RunlevelInheritance, CurRunlevel, globals, WasRunBefore,
                   parser, backup, pc, caller, ret, rret, pre, nReloads, nWrites, nEdits>>

\* The supervisor asks whether an object belongs to a runlevel.
ObjRL_CheckRunlevel_Call ==
    /\ pc = "idle"
    /\ \E rl \in QueryRunlevels, k \in 1..Len(ObjectTable), ci \in BOOLEAN :
          call' = [ op |-> "ObjRL_CheckRunlevel", rl |-> rl, obj |-> k, ci |-> ci,
                    result |-> ObjRL_CheckRunlevel(RunlevelInheritance, rl, ObjectTable[k], ci) ]
    /\ UNCHANGED <<Disk, ObjectTable, RunlevelInheritance, CurRunlevel, globals, WasRunBefore,
                   parser, backup, pc, caller, ret, rret, pre, nReloads, nWrites, nEdits>>

\* The runlevels the administrator adds to and deletes from an object.
EditedRunlevels == { Str("default"), Str("other") }

\* The administrator adds a runlevel to an object of the live table.
ObjRL_AddRunlevel_Call ==
    /\ pc = "idle"
    /\ \E rl \in EditedRunlevels, k \in 1..Len(ObjectTable) :
          /\ Len(ObjectTable[k].ObjectRunlevels) < MaxRunlevels
          /\ ObjectTable' = [ObjectTable EXCEPT ![k] = ObjRL_AddRunlevel(rl, @)]
          /\ call' = [ op |-> "ObjRL_AddRunlevel", rl |-> rl, obj |-> k ]
    /\ UNCHANGED <<Disk, RunlevelInheritance, CurRunlevel, globals, WasRunBefore,
                   parser, backup, pc, caller, ret, rret, pre, nReloads, nWrites, nEdits>>

\* The administrator deletes a runlevel from an object of the live table.
ObjRL_DelRunlevel_Call ==
    /\ pc = "idle"
    /\ \E rl \in EditedRunlevels, k \in 1..Len(ObjectTable) :
          LET r == ObjRL_DelRunlevel(rl, ObjectTable[k]) IN
          /\ ObjectTable' = [ObjectTable EXCEPT ![k] = r.o]
          /\ call' = [ op |-> "ObjRL_DelRunlevel", rl |-> rl, obj |-> k, result |-> r.result ]
    /\ UNCHANGED <<Disk, RunlevelInheritance, CurRunlevel, globals, WasRunBefore,
                   parser, backup, pc, caller, ret, rret, pre, nReloads, nWrites, nEdits>>

\* EditConfigValue reads the file into MasterStream.  The loop that is meant to
\* erase the newlines at the end of the text starts at the terminating NUL,
\* which is no newline, and ends at once: the text keeps its last lines.
EraseTrailingNewlines(lines) ==
    LET Inc2 == Len(lines) + 1 IN SubSeq(lines, 1, Inc2 - 1)

\* The first loop of EditConfigValue: every line that begins with ObjectID
\* must have a separator and a value, and the last one whose value is the id
\* is the object (0 when there is none).
MalformedObjectID(lines) ==
    \E k \in 1..Len(lines) :
       /\ lines[k].hash = "" /\ lines[k].key = "ObjectID"
       /\ (lines[k].sep = "" \/ lines[k].val = <<>>)

FindObjectID(lines, ObjectID) ==
    LET hits == { k \in 1..Len(lines) :
                    /\ lines[k].hash = "" /\ lines[k].key = "ObjectID"
                    /\ lines[k].val = ObjectID }
    IN IF hits = {} THEN 0 ELSE CHOOSE k \in hits : \A j \in hits : j <= k

\* The search for the attribute without the stopper.
Stopper_None(lines, i) == Len(lines) + 1

\* strstr(Worker, "ObjectID"): the next line that carries the text ObjectID,
\* commented out or not (one past the last line when there is none).
Stopper(lines, i) ==
    LET next == { k \in (i + 1)..Len(lines) : lines[k].key = "ObjectID" }
    IN IF next = {} THEN Len(lines) + 1 ELSE CHOOSE k \in next : \A j \in next : k <= j

\* strstr(Worker, Attribute) before the stopper: the first line that carries
\* the text of the attribute, commented out or not, as its keyword or as the
\* beginning of a longer keyword (0 when there is none).
FindAttribute(lines, i, Attribute) ==
    LET found == { k \in (i + 1)..(Stopper(lines, i) - 1) : lines[k].key = Attribute }
    IN IF found = {} THEN 0 ELSE CHOOSE k \in found : \A j \in found : k <= j

\* EditConfigValue that opens the file for writing before it looks at the
\* attribute's line: a line without separator is found when the file is empty.
EditConfigValue_WriteFirst(lines, ObjectID, Attribute, Value) ==
    LET i == FindObjectID(lines, ObjectID)
        k == IF i = 0 THEN 0 ELSE FindAttribute(lines, i, Attribute)
    IN
    IF lines = <<>> \/ MalformedObjectID(lines) \/ i = 0 \/ k = 0
    THEN [ status |-> FAILURE, text |-> lines ]
    ELSE IF lines[k].hash = "#" \/ lines[k].sep = ""
    THEN [ status |-> FAILURE, text |-> <<>> ]
    ELSE [ status |-> SUCCESS,
           text |-> [lines EXCEPT ![k] = [ hash |-> lines[k].hash, key |-> Attribute,
                                           rest |-> "", sep |-> lines[k].sep,
                                           val |-> Value ]] ]

\* EditConfigValue up to the fopen for writing: the status and the text that
\* is in the file (on FAILURE) or that is going to be written (on SUCCESS).
\* The new line is printed as attribute, saved separator, value: characters
\* between the attribute's text and the separator are not printed again.
EditConfigValue(lines, ObjectID, Attribute, Value) ==
    LET MasterStream == EraseTrailingNewlines(lines)
        i == FindObjectID(MasterStream, ObjectID)
        k == IF i = 0 THEN 0 ELSE FindAttribute(MasterStream, i, Attribute)
    IN
    IF lines = <<>> THEN [ status |-> FAILURE, text |-> lines ]
    ELSE IF MalformedObjectID(MasterStream) THEN [ status |-> FAILURE, text |-> lines ]
    ELSE IF i = 0 THEN [ status |-> FAILURE, text |-> lines ]
    ELSE IF k = 0 THEN [ status |-> FAILURE, text |-> lines ]
    ELSE IF MasterStream[k].hash = "#" THEN [ status |-> FAILURE, text |-> lines ]
    ELSE IF MasterStream[k].sep = "" THEN [ status |-> FAILURE, text |-> lines ]
    ELSE [ status |-> SUCCESS,
           text |-> SubSeq(MasterStream, 1, k - 1)
                    \o << [ hash |-> MasterStream[k].hash, key |-> Attribute, rest |-> "",
                            sep |-> MasterStream[k].sep, val |-> Value ] >>
                    \o SubSeq(MasterStream, k + 1, Len(MasterStream)) ]

\* What EditConfigValue is called with.
EditIds == { V("a"), V("b"), V("z") }
EditAttributes == { "ObjectEnabled", "ObjectStartCommand" }
EditValues == { V("true"), V("false") }

\* EditConfigValue from its entry to its return with FAILURE, or to the fopen
\* with mode "w", which leaves an empty file.
EditConfigValue_Read ==
    /\ pc = "idle"
    /\ nEdits < MaxEdits
    /\ nEdits' = nEdits + 1
    /\ \E id \in EditIds, at \in EditAttributes, v \in EditValues :
          LET r == EditConfigValue(Disk, id, at, v) IN
          /\ call' = [ op |-> "EditConfigValue", id |-> id, at |-> at, v |-> v,
                       old |-> Disk, new |-> r.text,
                       status |-> IF r.status = SUCCESS THEN "running" ELSE r.status ]
          /\ Disk' = IF r.status = SUCCESS THEN <<>> ELSE r.text
          /\ pc' = IF r.status = SUCCESS THEN "ec_write" ELSE "idle"
    /\ UNCHANGED <<ObjectTable, RunlevelInheritance, CurRunlevel, globals, WasRunBefore,
                   parser, backup, caller, ret, rret, pre, nReloads, nWrites>>

\* EditConfigValue_Write that also parses the new text into the live table.
EditConfigValue_Write_Live ==
    /\ pc = "ec_write"
    /\ Disk' = call.new
    /\ ObjectTable' = ParseLines([StOf EXCEPT !.C = 0, !.T = <<>>], call.new, 1).T
    /\ call' = [call EXCEPT !.status = SUCCESS]
    /\ pc' = "idle"
    /\ UNCHANGED <<RunlevelInheritance, CurRunlevel, globals, WasRunBefore,
                   parser, backup, caller, ret, rret, pre, nReloads, nWrites, nEdits>>

\* fwrite, fclose and the return with SUCCESS.
EditConfigValue_Write ==
    /\ pc = "ec_write"
    /\ Disk' = call.new
    /\ call' = [call EXCEPT !.status = SUCCESS]
    /\ pc' = "idle"
    /\ UNCHANGED <<ObjectTable, RunlevelInheritance, CurRunlevel, globals, WasRunBefore,
                   parser, backup, caller, ret, rret, pre, nReloads, nWrites, nEdits>>

\* The administrator replaces epoch.conf by a file of the set F.
WriteFile(F) ==
    /\ pc = "idle"
    /\ nWrites < MaxWrites
    /\ nReloads < MaxReloads
    /\ nWrites' = nWrites + 1
    /\ Disk' \in F
    /\ UNCHANGED <<ObjectTable, RunlevelInheritance, CurRunlevel, globals, WasRunBefore,
                   parser, backup, pc, caller, ret, rret, pre, call, nReloads, nEdits>>

-----------------------------------------------------------------------------
(* The configuration files of the checked scenarios.  An object of a file is   *)
(* described by the lines it has: its id (a word), whether it has a description and a   *)
(* start command, the value of its ObjectStopCommand, ObjectOptions and        *)
(* ObjectEnabled lines ("" for no line), its runlevels (<<>> for no line) and  *)
(* its priorities (0 for no line).                                             *)

Opt(c, line) == IF c THEN <<line>> ELSE <<>>

ObjLines(f) ==
       << L("ObjectID", <<f.id>>) >>
    \o Opt(f.desc, L("ObjectDescription", V("text")))
    \o Opt(f.start, L("ObjectStartCommand", V("/bin/start")))
    \o Opt(f.stop # "", L("ObjectStopCommand", V(f.stop)))
    \o Opt(f.sp # 0, L("ObjectStartPriority", <<Num(f.sp)>>))
    \o Opt(f.tp # 0, L("ObjectStopPriority", <<Num(f.tp)>>))
    \o Opt(f.opts # "", L("ObjectOptions", V(f.opts)))
    \o Opt(f.rls # <<>>, L("ObjectRunlevels", f.rls))
    \o Opt(f.en # "", L("ObjectEnabled", V(f.en)))

RECURSIVE Flatten(_)
Flatten(fs) == IF fs = <<>> THEN <<>> ELSE ObjLines(Head(fs)) \o Flatten(Tail(fs))

\* The k-th RunlevelInherits line: "default" inherits "other", then the
\* runlevels "2", "3", ... inherit "other".
InheritLine(k) ==
    L("RunlevelInherits", << (IF k = 1 THEN Str("default") ELSE Num(k)), Str("other") >>)

Header(dr, k) ==
    Opt(dr, L("DefaultRunlevel", V("default"))) \o [i \in 1..k |-> InheritLine(i)]

\* Sequences of 1..n elements of S.
SeqsUpTo(S, n) == UNION { [1..m -> S] : m \in 1..n }

Good(id) ==
    [ id |-> Str(id), desc |-> TRUE, start |-> TRUE, stop |-> "", opts |-> "",
      rls |-> V("default"), en |-> "true", sp |-> 1, tp |-> 1 ]

\* The objects of the file the machine boots with: a service that runs in
\* "default" and a command that runs at halt only.
SeedObjs ==
    << Good("a"),
       [Good("h") EXCEPT !.start = FALSE, !.stop = "/bin/halt", !.opts = "HALTONLY",
                         !.rls = <<>>, !.sp = 0, !.tp = 2] >>

\* The same two objects with the service declared in "other", which "default"
\* reaches through the first RunlevelInherits line only.
SeedObjsOther == << [SeedObjs[1] EXCEPT !.rls = V("other")], SeedObjs[2] >>

BootFiles ==
    { Header(TRUE, k) \o Flatten(SeedObjs) : k \in 0..MaxInherit }
    \cup { Header(TRUE, k) \o Flatten(SeedObjsOther) : k \in 1..MaxInherit }

\* The objects of the files ReloadConfig is given: "a" is an object of the
\* running configuration, "c" is new.
ReloadObjs ==
    UNION { { Good(id),
              [Good(id) EXCEPT !.rls = V("other")],
              [Good(id) EXCEPT !.desc = FALSE],
              [Good(id) EXCEPT !.en = ""],
              [Good(id) EXCEPT !.rls = <<>>],
              [Good(id) EXCEPT !.opts = "HALTONLY", !.sp = 0] } : id \in {"a", "c"} }

\* Lines that set the three toggles ReloadConfig puts aside to the opposite
\* of the values they have at boot.
ToggleLines ==
    << L("EnableLogging", V("false")), L("DisableCAD", V("false")),
       L("AlignStatusReports", V("true")) >>

ReloadFiles ==
    { <<>>, Header(TRUE, 0),
      << L("DefaultRunlevel", V("other")) >>
         \o Flatten(<< [Good("a") EXCEPT !.rls = << Str("default"), Str("other") >>] >>),
      << L("ShellEnabled", V("true")), L("BlankLogOnBoot", V("true")),
         L("Hostname", V("host")) >>
         \o Header(TRUE, 0) \o Flatten(<< [Good("a") EXCEPT !.en = ""] >>) }
    \cup { ToggleLines \o Header(TRUE, 0) \o Flatten(<<o>>) :
             o \in { Good("a"), [Good("a") EXCEPT !.en = ""] } }
    \cup { Header(h[1], h[2]) \o Flatten(fs) :
             h \in { <<TRUE, 0>>, <<FALSE, 0>>, <<FALSE, 1>> },
             fs \in SeqsUpTo(ReloadObjs, MaxReloadObjs) }

\* Files whose objects lack attributes or repeat an id, for the integrity scan.
ScanObjs ==
    UNION { { Good(id),
              [Good(id) EXCEPT !.desc = FALSE],
              [Good(id) EXCEPT !.en = ""],
              [Good(id) EXCEPT !.rls = <<>>],
              [Good(id) EXCEPT !.start = FALSE],
              [Good(id) EXCEPT !.start = FALSE, !.en = ""],
              [Good(id) EXCEPT !.opts = "HALTONLY", !.rls = <<>>, !.sp = 0],
              [Good(id) EXCEPT !.opts = "HALTONLY", !.stop = "PID", !.sp = 0] }
            : id \in {"a", "b"} }

ScanFiles ==
    { Header(TRUE, 0) } \cup { Header(TRUE, 0) \o Flatten(fs) : fs \in SeqsUpTo(ScanObjs, MaxObjs) }

\* Files whose objects differ in their declared priorities only.  The start
\* priorities of a file are any sequence of values; its stop priorities are
\* the same values, none, the values in place of the start priorities, the
\* values mirrored, or the values moved up by one.
PrioPatterns == {"same", "start", "stop", "mirror", "shift"}

PrioObj(p, v) ==
    [ id |-> Str(""), desc |-> FALSE, start |-> TRUE, stop |-> "", opts |-> "",
      rls |-> V("default"), en |-> "true",
      sp |-> IF p = "stop" THEN 0 ELSE v,
      tp |-> IF p \in {"same", "stop"} THEN v
             ELSE IF p = "start" THEN 0
             ELSE IF p = "mirror" THEN MaxPrio - v
             ELSE (v + 1) % (MaxPrio + 1) ]

\* The k-th object of such a file has the id "k"; one file has no object.
PrioFiles ==
    { Header(TRUE, 0) }
    \cup
    { Header(TRUE, 0) \o Flatten([k \in 1..Len(vs) |-> [PrioObj(p, vs[k]) EXCEPT !.id = Num(k)]])
      : p \in PrioPatterns, vs \in SeqsUpTo(0..MaxPrio, MaxPrioObjs) }

\* Files for the lookups: up to two inheritance lines that form a chain, and
\* objects, halt-only or not, in one of three runlevels; one file has no object.
QueryHeader(k) ==
    << L("DefaultRunlevel", V("default")) >>
    \o SubSeq(<< L("RunlevelInherits", << Str("default"), Str("other") >>),
                 L("RunlevelInherits", << Str("other"), Str("third") >>) >>, 1, k)

QueryObjs ==
    { [Good("") EXCEPT !.rls = rl, !.opts = o, !.sp = pr[1], !.tp = pr[2]] :
        rl \in QueryRunlevels, o \in {"", "HALTONLY"},
        pr \in { <<1, 1>>, <<MaxQueryPrio, 0>> } }

QueryFiles ==
    { QueryHeader(0) }
    \cup
    { QueryHeader(k) \o Flatten([i \in 1..Len(fs) |-> [fs[i] EXCEPT !.id = Num(i)]])
      : k \in 0..2, fs \in SeqsUpTo(QueryObjs, MaxQueryObjs) }

\* Files for EditConfigValue.  The section of an object is its ObjectID line, a
\* comment or none, its ObjectEnabled line or none, and its ObjectStartCommand
\* line; the file ends with up to MaxBlank empty lines.
Blank == [hash |-> "", key |-> "", rest |-> "", sep |-> "", val |-> <<>>]

EditComments ==
    { <<>>,
      << [L("ObjectEnabled", V("true")) EXCEPT !.hash = "#"] >>,
      << [L("ObjectEnabled", V("true")) EXCEPT !.hash = "# "] >>,
      << [L("ObjectID", V("z")) EXCEPT !.hash = "# "] >> }

EditLines ==
    { <<>> }
    \cup { << [L("ObjectEnabled", V("true")) EXCEPT !.sep = sp] >> : sp \in {" ", "\t\t", "="} }
    \cup { << [L("ObjectEnabled", <<>>) EXCEPT !.sep = ""] >>,
           << L("ObjectEnabled", <<>>) >>,
           << [L("ObjectEnabled", V("true")) EXCEPT !.rest = "X"] >> }

Section(id, c, e) ==
    << L("ObjectID", V(id)) >> \o c \o e \o << L("ObjectStartCommand", V("/bin/start")) >>

EditFiles ==
    { << L("DefaultRunlevel", V("default")) >>
      \o Section("a", c, e) \o Section("b", d, f) \o [i \in 1..n |-> Blank]
      : c \in EditComments, e \in EditLines,
        d \in { <<>>, << [L("ObjectEnabled", V("true")) EXCEPT !.hash = "# "] >> },
        f \in { <<>>, << L("ObjectEnabled", V("true")) >> },
        n \in 0..MaxBlank }

\* Files for the parse loop: nothing or one global line, the ObjectID line of
\* the object "a", and up to MaxParseLines lines: directives that belong
\* before the first object, keywords that go on as longer identifiers, lines
\* without separator or without value, priorities given as numbers and as
\* aliases, and stop commands.
ParsePre ==
    { <<>>,
      << L("DefaultRunlevel", V("default")) >>,
      << L("DefinePriority", << Str("x"), Num(2) >>) >>,
      << L("DefinePriority", << Str("z"), Num(0) >>) >> }

ParseBody ==
    { L("DefinePriority", << Str("x"), Num(1) >>),
      L("RunlevelInherits", << Str("default"), Str("other") >>),
      L("DefaultRunlevel", V("other")),
      L("Hostname", V("host")),
      [L("ObjectEnabled", V("false")) EXCEPT !.rest = "X"],
      [L("EnableLogging", V("false")) EXCEPT !.rest = "X"],
      [L("ObjectID", <<>>) EXCEPT !.sep = ""],
      L("ObjectID", <<>>),
      [L("EnableLogging", <<>>) EXCEPT !.sep = "="],
      L("ObjectEnabled", V("true")),
      L("ObjectRunlevels", V("default")),
      L("ObjectStartCommand", V("/bin/start")) }
    \cup { L("ObjectStartPriority", v) : v \in { <<Num(1)>>, V("x"), V("z"), V("u") } }
    \cup { L("ObjectStopPriority", v) : v \in { <<Num(1)>>, V("x") } }
    \cup { L("ObjectStopCommand", v) :
             v \in { V("PID"), V("PIDFILE"), << Str("PIDFILE"), Str("/run/a.pid") >>,
                     V("NONE"), V("PIDKILL"), V("NONESUCH"),
                     << Str("/bin/stop"), Str("a") >> } }

\* Lines for block comments: the mark that opens a block, the mark that
\* closes one alone on its line and followed by a directive, and the directives
\* an object needs to pass the integrity scan.
BlockBody ==
    { [L("", <<>>) EXCEPT !.hash = ">!>", !.sep = ""],
      [L("", <<>>) EXCEPT !.hash = "<!<", !.sep = ""],
      [L("ObjectEnabled", V("true")) EXCEPT !.hash = "<!<"],
      L("ObjectEnabled", V("false")),
      L("ObjectStartCommand", V("/bin/start")) }

BlockFiles ==
    { << L("DefaultRunlevel", V("default")), L("ObjectID", V("a")),
         L("ObjectRunlevels", V("default")) >> \o body :
        body \in SeqsUpTo(BlockBody, MaxBlockLines) }

\* Files with ShellEnabled lines before and after an object that asks for
\* FORCESHELL.
ShellFiles ==
    { head \o << L("ObjectID", V("a")) >> \o body :
        head \in { <<>>, << L("ShellEnabled", V("true")) >>, << L("ShellEnabled", V("false")) >> },
        body \in SeqsUpTo({ L("ObjectOptions", V("FORCESHELL")),
                            L("ShellEnabled", V("true")),
                            L("ShellEnabled", V("false")) }, MaxParseLines) }

ParseFiles ==
    { head \o << L("ObjectID", V("a")) >> \o body :
        head \in ParsePre, body \in {<<>>} \cup SeqsUpTo(ParseBody, MaxParseLines) }
    \cup BlockFiles \cup ShellFiles

-----------------------------------------------------------------------------
(* The specifications. *)

InitWith(F) ==
    /\ Disk \in F
    /\ ObjectTable = <<>>
    /\ RunlevelInheritance = <<>>
    /\ PriorityAliasTree = <<>>
    /\ CurRunlevel = <<>>
    /\ EnableLogging = TRUE
    /\ DisableCAD = TRUE
    /\ AlignStatusReports = FALSE
    /\ ShellEnabled = USE_SHELL_BY_DEFAULT
    /\ BlankLogOnBoot = FALSE
    /\ Hostname = <<>>
    /\ WasRunBefore = FALSE
    /\ Worker = 1
    /\ CurObj = 0
    /\ TRoot = <<>>
    /\ RLIRoot = <<>>
    /\ RunlevelBackup = <<>>
    /\ GlobalTriple = <<FALSE, FALSE, FALSE>>
    /\ pc = "ic_parse"
    /\ caller = "boot"
    /\ ret = "none"
    /\ rret = "none"
    /\ pre = [ T |-> <<>>, R |-> <<>>, RL |-> <<>>, EL |-> TRUE, CAD |-> TRUE,
               ASR |-> FALSE, SE |-> USE_SHELL_BY_DEFAULT, BLB |-> FALSE, HN |-> <<>>,
               Disk |-> <<>> ]
    /\ call = [op |-> "none"]
    /\ nReloads = 0
    /\ nWrites = 0
    /\ nEdits = 0

\* Boot with a good file, then the supervisor runs objects, the administrator
\* replaces the file and the configuration is reloaded.
Init == InitWith(BootFiles)

Next ==
    \/ IC_Parse
    \/ IC_Post
    \/ IC_Scan
    \/ IC_Dump
    \/ RL_Backup
    \/ RL_Shutdown
    \/ RL_Finish
    \/ SupervisorStart
    \/ SupervisorStop
    \/ WriteFile(ReloadFiles)

Spec == Init /\ [][Next]_vars

\* Boot with a file whose objects lack attributes or repeat an id; when the
\* table is published the supervisor runs objects and the same file is reloaded.
InitScan == InitWith(ScanFiles)

NextScan ==
    \/ IC_Parse
    \/ IC_Post
    \/ IC_Scan
    \/ IC_Dump
    \/ RL_Backup
    \/ RL_Shutdown
    \/ RL_Finish
    \/ SupervisorStart
    \/ SupervisorStop

SpecScan == InitScan /\ [][NextScan]_vars

\* Boot with a file whose objects declare priorities.
InitPrio == InitWith(PrioFiles)

NextPrio ==
    \/ IC_Parse
    \/ IC_Post
    \/ IC_Scan
    \/ IC_Dump

SpecPrio == InitPrio /\ [][NextPrio]_vars

\* Boot with a file of the lookup family, then the supervisor looks objects up.
InitQuery == InitWith(QueryFiles)

NextQuery ==
    \/ IC_Parse
    \/ IC_Post
    \/ IC_Scan
    \/ IC_Dump
    \/ GetObjectByPriority_Call
    \/ ObjRL_CheckRunlevel_Call
    \/ GetHighestPriority_Call

SpecQuery == InitQuery /\ [][NextQuery]_vars

\* Boot with a good file, or with a file without objects, on which the boot
\* fails; after a good boot the administrator replaces the file by one of the
\* editing family, EditConfigValue changes a value of the file that is there,
\* and the file is reloaded.
InitEdit == InitWith({ Header(TRUE, 0) \o Flatten(SeedObjs), Header(TRUE, 0) })

NextEdit ==
    \/ IC_Parse
    \/ IC_Post
    \/ IC_Scan
    \/ IC_Dump
    \/ WriteFile(EditFiles)
    \/ EditConfigValue_Read
    \/ EditConfigValue_Write
    \/ RL_Backup
    \/ RL_Shutdown
    \/ RL_Finish

SpecEdit == InitEdit /\ [][NextEdit]_vars

\* Boot with a good file, or with a file without objects; on the published
\* table the administrator adds and deletes runlevels.
InitRL == InitWith({ Header(TRUE, 0) \o Flatten(SeedObjs), Header(TRUE, 0) })

NextRL ==
    \/ IC_Parse
    \/ IC_Post
    \/ IC_Scan
    \/ IC_Dump
    \/ ObjRL_AddRunlevel_Call
    \/ ObjRL_DelRunlevel_Call

SpecRL == InitRL /\ [][NextRL]_vars

\* Boot with a file of the parse family.
InitParse == InitWith(ParseFiles)

NextParse ==
    \/ IC_Parse
    \/ IC_Post
    \/ IC_Scan
    \/ IC_Dump

SpecParse == InitParse /\ [][NextParse]_vars

-----------------------------------------------------------------------------
(* The steps the properties speak about. *)

\* ReloadConfig returns, after a parse that failed / that did not fail.
ReloadFails == pc = "rl_ret" /\ ret = FAILURE /\ pc' = "idle"
ReloadSucceeds == pc = "rl_ret" /\ ret # FAILURE /\ pc' = "idle"

\* InitConfig returns SUCCESS or WARNING: the table is published.
Publishes == pc = "ic_scan" /\ pc' \in {"idle", "rl_ret"} /\ ret' \in {SUCCESS, WARNING}

DistinctIds(T) ==
    \A i, j \in 1..Len(T) : i # j => T[i].ObjectID # T[j].ObjectID

HasDefaultRunlevel(lines) == \E k \in 1..Len(lines) : lines[k].key = "DefaultRunlevel"

\* The table and the inheritance list the parse loop builds from a file.
BlankSt ==
    [ T |-> <<>>, C |-> 0, R |-> <<>>, A |-> <<>>, RL |-> <<>>, EL |-> TRUE, CAD |-> TRUE,
      ASR |-> FALSE, SE |-> FALSE, BLB |-> FALSE, HN |-> <<>>, LC |-> FALSE ]
Parsed(lines) == ParseLines(BlankSt, lines, 1)

\* No non-halt-only object of the file is in the runlevel rl, counting inheritance.
NoObjectIn(lines, rl) ==
    LET st == Parsed(lines) IN ~ObjRL_ValidRunlevel(st.T, st.R, rl)

-----------------------------------------------------------------------------
(* C1: when the parse inside ReloadConfig fails, ReloadConfig returns FAILURE  *)
(* with the object table equal to the pre-reload table (same objects, order,   *)
(* fields, Started, ObjectPID, runlevel lists) and CurRunlevel unchanged.      *)
C1_RollbackRestoresTable ==
    [][ReloadFails => /\ rret' = FAILURE
                      /\ ObjectTable' = pre.T
                      /\ CurRunlevel' = pre.RL]_vars

\* A failed reload has returned to a table of two objects, one of them started
\* by the supervisor under a pid, one with a runlevel list.
C1_Witness ==
    /\ pc = "idle" /\ rret = FAILURE
    /\ Len(ObjectTable) = 2
    /\ ObjectTable = pre.T
    /\ \E k \in 1..2 : ObjectTable[k].Started /\ ObjectTable[k].ObjectPID # 0
    /\ \E k \in 1..2 : ObjectTable[k].ObjectRunlevels # <<>>
    /\ \E k \in 1..2 : ~ObjectTable[k].Started

(* C2: when ReloadConfig fails, the inheritance relation equals the pre-reload *)
(* relation, for any number of stored pairs.                                   *)
C2_RollbackRestoresInheritance ==
    [][ReloadFails => RunlevelInheritance' = pre.R]_vars

SoundObjs == { Good(id) : id \in {"a", "c"} } \cup { [Good(id) EXCEPT !.rls = V("other")] : id \in {"a", "c"} }
SoundFiles ==
    { Header(FALSE, k) \o Flatten(fs) :
        k \in 0..1,
        fs \in { g \in SeqsUpTo(SoundObjs, MaxReloadObjs) :
                   \A i, j \in 1..Len(g) : i # j => g[i].id # g[j].id } }

C4_StatusCarriedOver ==
    [][ReloadSucceeds =>
         \A i \in 1..Len(ObjectTable') :
            LET o == ObjectTable'[i] IN
            IF \E j \in 1..Len(pre.T) : pre.T[j].ObjectID = o.ObjectID
            THEN \A j \in 1..Len(pre.T) :
                    pre.T[j].ObjectID = o.ObjectID
                       => /\ o.Started = pre.T[j].Started
                          /\ o.ObjectPID = pre.T[j].ObjectPID
            ELSE /\ o.Started = ObjectTable[i].Started
                 /\ o.ObjectPID = ObjectTable[i].ObjectPID]_vars

(* C5: at every point during ReloadConfig the table is the complete           *)
(* pre-reload table or the complete new table, never absent, empty or partly   *)
(* built.                                                                      *)
C5_NeverHalfBuilt ==
    rret = "running" => (ObjectTable = pre.T \/ (pc = "rl_ret" /\ ret # FAILURE))

(* C6: whenever a parse returns SUCCESS or WARNING no two objects of the table *)
(* have the same id.                                                           *)
C6_PublishedIdsDistinct ==
    [][Publishes => DistinctIds(ObjectTable')]_vars

(* C7: after a parse that publishes its table no two objects have the same     *)
(* non-zero ObjectStartPriority and no two the same non-zero                   *)
(* ObjectStopPriority.                                                         *)
C7_PrioritiesUnique ==
    [][Publishes =>
         \A i, j \in 1..Len(ObjectTable') :
            i # j =>
              /\ (ObjectTable'[i].ObjectStartPriority # 0
                    => ObjectTable'[i].ObjectStartPriority # ObjectTable'[j].ObjectStartPriority)
              /\ (ObjectTable'[i].ObjectStopPriority # 0
                    => ObjectTable'[i].ObjectStopPriority # ObjectTable'[j].ObjectStopPriority)]_vars

\* The start priority the k-th object of a priority file declares.
Declared(lines, key) ==
    LET idx == { k \in 1..Len(lines) : lines[k].key = key } IN
    { lines[k].val[1].n : k \in idx }

\* A table of MaxPrioObjs objects is published from a file in which all objects
\* declare one start priority and one stop priority, so that every object but
\* one had to move in both phases.
C7_Witness ==
    /\ pc = "idle"
    /\ Len(ObjectTable) = MaxPrioObjs
    /\ Cardinality(Declared(Disk, "ObjectStartPriority")) = 1
    /\ Cardinality(Declared(Disk, "ObjectStopPriority")) = 1
    /\ Cardinality({ k \in 1..Len(Disk) : Disk[k].key = "ObjectStartPriority" }) = MaxPrioObjs
    /\ Cardinality({ k \in 1..Len(Disk) : Disk[k].key = "ObjectStopPriority" }) = MaxPrioObjs
    /\ Cardinality({ ObjectTable[k].ObjectStartPriority : k \in 1..Len(ObjectTable) }) = MaxPrioObjs

(* C8: whenever a parse returns SUCCESS or WARNING every object's Enabled is   *)
(* true or false, never unset.                                                 *)
C8_PublishedEnabledSet ==
    [][Publishes => \A k \in 1..Len(ObjectTable') : ObjectTable'[k].Enabled # 2]_vars

(* C9: whenever a parse returns SUCCESS or WARNING every object that is not    *)
(* halt-only has at least one runlevel.                                        *)
C9_PublishedHasRunlevels ==
    [][Publishes => \A k \in 1..Len(ObjectTable') :
                       ~ObjectTable'[k].HaltCmdOnly => ObjectTable'[k].ObjectRunlevels # <<>>]_vars

(* C10, as claimed: in every published table every object that is not         *)
(* halt-only has a non-empty start command.                                    *)
C10_PublishedHasStartCommand ==
    [][Publishes => \A k \in 1..Len(ObjectTable') :
                       ~ObjectTable'[k].HaltCmdOnly => ObjectTable'[k].ObjectStartCommand # <<>>]_vars

(* C10, amended: in every published table every object that is not halt-only   *)
(* and has an empty start command is disabled (Enabled is false), and the      *)
(* parse that published it returned WARNING.                                    *)
C10_NoStartCommandDisabled ==
    [][Publishes => \A k \in 1..Len(ObjectTable') :
                       (~ObjectTable'[k].HaltCmdOnly /\ ObjectTable'[k].ObjectStartCommand = <<>>)
                          => (ObjectTable'[k].Enabled = 0 /\ ret' = WARNING)]_vars

\* A published table holds an object without start command that declared
\* ObjectEnabled true and is disabled.
C10_Witness ==
    /\ pc = "idle" /\ ret = WARNING
    /\ \E k \in 1..Len(ObjectTable) :
          /\ ~ObjectTable[k].HaltCmdOnly
          /\ ObjectTable[k].ObjectStartCommand = <<>>
          /\ ObjectTable[k].Enabled = 0
          /\ ObjectTable[k].ObjectRunlevels # <<>>
    /\ \E k \in 1..Len(Disk) : Disk[k].key = "ObjectEnabled" /\ Disk[k].val = V("true")
    /\ \A k \in 1..Len(Disk) : Disk[k].key = "ObjectEnabled" => Disk[k].val = V("true")

(* C11: in every state reached by a boot parse that did not fail followed by   *)
(* any sequence of ReloadConfig calls, CurRunlevel is non-empty and is matched,  *)
(* counting inheritance, by a non-halt-only object of the live table.            *)
C11_RunlevelAlwaysValid ==
    pc = "idle" => /\ CurRunlevel # <<>>
                   /\ ObjRL_ValidRunlevel(ObjectTable, RunlevelInheritance, CurRunlevel)

\* What GetObjectByPriority must accept according to the claim / to the code.
PriorityOf(o, want) == IF want THEN o.ObjectStartPriority ELSE o.ObjectStopPriority

Matches(o, rl) ==
    \/ \E i \in 1..Len(o.ObjectRunlevels) : <<o.ObjectRunlevels[i]>> = rl
    \/ \E i \in 1..Len(o.ObjectRunlevels), j \in 1..Len(RunlevelInheritance) :
          /\ <<RunlevelInheritance[j].Inheriter>> = rl
          /\ RunlevelInheritance[j].Inherited = o.ObjectRunlevels[i]

LookedUp == call' # call /\ call'.op = "GetObjectByPriority" /\ call'.rl # NULL

(* C12, as claimed: GetObjectByPriority with a runlevel returns an object of    *)
(* that priority and runlevel (counting inheritance), nothing when there is    *)
(* none; halt-only objects are eligible in the stop phase only.                *)
C12_HaltOnlyInStopPhase ==
    [][LookedUp =>
         LET c == call'
             ok(i) == /\ PriorityOf(ObjectTable[i], c.want) = c.p
                      /\ Matches(ObjectTable[i], c.rl)
                      /\ (ObjectTable[i].HaltCmdOnly => ~c.want)
         IN IF c.result = 0
            THEN \A i \in 1..Len(ObjectTable) : ~ok(i)
            ELSE ok(c.result)]_vars

(* C12, amended: GetObjectByPriority with a runlevel returns the first object  *)
(* of the table with that priority for the phase that matches the runlevel     *)
(* (counting inheritance), nothing when there is none; halt-only objects are   *)
(* eligible in the start phase only and are never returned in the stop phase.  *)
C12_HaltOnlyInStartPhase ==
    [][LookedUp =>
         LET c == call'
             ok(i) == /\ PriorityOf(ObjectTable[i], c.want) = c.p
                      /\ Matches(ObjectTable[i], c.rl)
                      /\ (ObjectTable[i].HaltCmdOnly => c.want)
         IN IF c.result = 0
            THEN \A i \in 1..Len(ObjectTable) : ~ok(i)
            ELSE ok(c.result) /\ \A j \in 1..(c.result - 1) : ~ok(j)]_vars

\* A start-phase lookup has returned a halt-only object that matches the
\* runlevel through inheritance only.
C12_Witness ==
    /\ call.op = "GetObjectByPriority" /\ call.rl = V("default") /\ call.want
    /\ call.result # 0
    /\ ObjectTable[call.result].HaltCmdOnly
    /\ ObjectTable[call.result].ObjectRunlevels = V("other")

(* C13: ObjRL_CheckRunlevel(R, O, countInherited) is true exactly when R is    *)
(* one of O's runlevels, or countInherited is set and a stored pair (R, r) has *)
(* r among O's runlevels; pairs are never chained, and without countInherited  *)
(* only direct membership counts.                                              *)
C13_InheritanceNotChained ==
    [][(call' # call /\ call'.op = "ObjRL_CheckRunlevel") =>
         LET c == call'
             rls == ObjectTable[c.obj].ObjectRunlevels
             direct == \E i \in 1..Len(rls) : <<rls[i]>> = c.rl
             stored == \E i \in 1..Len(rls), j \in 1..Len(RunlevelInheritance) :
                          /\ <<RunlevelInheritance[j].Inheriter>> = c.rl
                          /\ RunlevelInheritance[j].Inherited = rls[i]
         IN c.result = (direct \/ (c.ci /\ stored))]_vars

\* With (default, other) and (other, third) stored, an object that is in
\* "third" only was asked about "default" with inheritance counted: no match.
C13_Witness ==
    /\ call.op = "ObjRL_CheckRunlevel" /\ call.rl = V("default") /\ call.ci
    /\ Len(RunlevelInheritance) = 2
    /\ RunlevelInheritance[1].Inherited = RunlevelInheritance[2].Inheriter
    /\ ObjectTable[call.obj].ObjectRunlevels = V("third")
    /\ ~call.result

\* EditConfigValue returns; what the file says about the object of the call:
\* its ObjectID line (the last live one with the id), the lines of its section
\* (up to the next live ObjectID line) and its live lines for an attribute.
EditReturns ==
    call' # call /\ call'.op = "EditConfigValue" /\ call'.status \in {FAILURE, SUCCESS}

IdLine(lines, id) ==
    LET hits == { k \in 1..Len(lines) :
                    lines[k].hash = "" /\ lines[k].key = "ObjectID" /\ lines[k].val = id }
    IN IF hits = {} THEN 0 ELSE CHOOSE k \in hits : \A j \in hits : j <= k

SectionOf(lines, id) ==
    LET i == IdLine(lines, id) IN
    IF i = 0 THEN {}
    ELSE { k \in (i + 1)..Len(lines) :
             \A j \in (i + 1)..k : ~(lines[j].hash = "" /\ lines[j].key = "ObjectID") }

LiveLines(lines, id, at) ==
    { k \in SectionOf(lines, id) : lines[k].hash = "" /\ lines[k].key = at }

FirstOf(S) == CHOOSE k \in S : \A j \in S : k <= j

(* C14: whenever EditConfigValue returns FAILURE the file is what it was       *)
(* before the call.                                                            *)
C14_FailureLeavesFile ==
    [][(EditReturns /\ call'.status = FAILURE) => (Disk' = call'.old /\ Disk' = Disk)]_vars

\* EditConfigValue has failed on a line without separator, in a file that ends
\* with empty lines, and the file is the old one.
C14_Witness ==
    /\ pc = "idle" /\ call.op = "EditConfigValue" /\ call.status = FAILURE
    /\ Disk = call.old
    /\ Disk[Len(Disk)] = Blank
    /\ LiveLines(Disk, call.id, call.at) # {}
    /\ Disk[FirstOf(LiveLines(Disk, call.id, call.at))].sep = ""

(* C15: EditConfigValue returns FAILURE when no ObjectID line has the id, when *)
(* the object has no line with the attribute, when the attribute's line has no *)
(* separator, and when it has a separator but an empty value.                  *)
C15_FailureCases ==
    [][EditReturns =>
         LET c == call'
             S == LiveLines(c.old, c.id, c.at)
         IN (\/ IdLine(c.old, c.id) = 0
             \/ S = {}
             \/ c.old[FirstOf(S)].sep = ""
             \/ c.old[FirstOf(S)].val = <<>>) => c.status = FAILURE]_vars

(* C16: when EditConfigValue returns SUCCESS the new file is the old file with *)
(* the value of one line replaced by the new value: the line's keyword and     *)
(* separator and every other line are unchanged.                               *)
C16_OnlyValueReplaced ==
    [][(EditReturns /\ call'.status = SUCCESS) =>
         /\ Disk' = call'.new
         /\ \E k \in 1..Len(call'.old) :
               Disk' = [call'.old EXCEPT ![k].val = call'.v]]_vars

(* C17: when the object has a well-formed line for the attribute with the      *)
(* value v, EditConfigValue(id, attribute, v) returns SUCCESS and leaves the   *)
(* file identical, the empty lines at its end included.                        *)
C17_NoOpEditIsIdentity ==
    [][EditReturns =>
         LET c == call'
             S == LiveLines(c.old, c.id, c.at)
         IN (/\ S # {}
             /\ c.old[FirstOf(S)].rest = ""
             /\ c.old[FirstOf(S)].sep \in {" ", "\t\t", "="}
             /\ c.old[FirstOf(S)].val = c.v)
            => (c.status = SUCCESS /\ Disk' = c.old)]_vars

(* C18: EditConfigValue never changes a line of another object: every line     *)
(* outside the section of the object is unchanged, and when no line between    *)
(* its ObjectID line and the next ObjectID line carries the attribute the call *)
(* returns FAILURE, also when a later object has a line for the attribute.     *)
C18_StaysInsideObject ==
    [][EditReturns =>
         LET c == call'
             S == SectionOf(c.old, c.id)
         IN /\ Len(Disk') = Len(c.old)
            /\ \A k \in 1..Len(c.old) : k \notin S => Disk'[k] = c.old[k]
            /\ (\A k \in S : c.old[k].key # c.at) => c.status = FAILURE]_vars

\* EditConfigValue has failed for the first object, which has no line for the
\* attribute, in a file whose second object has such a line.
C18_Witness ==
    /\ pc = "idle" /\ call.op = "EditConfigValue" /\ call.status = FAILURE
    /\ call.id = V("a") /\ call.at = "ObjectEnabled"
    /\ IdLine(Disk, V("a")) # 0
    /\ \A k \in SectionOf(Disk, V("a")) : Disk[k].key # "ObjectEnabled"
    /\ LiveLines(Disk, V("b"), "ObjectEnabled") # {}
    /\ Disk = call.old

(* C19: at every point during EditConfigValue the file holds the complete old  *)
(* text or the complete new text, never an empty or partly written file.       *)
C19_FileNeverPartlyWritten ==
    pc = "ec_write" => Disk \in {call.old, call.new}

(* C20: when the file is unchanged since the parse that produced the live      *)
(* table and only Started and ObjectPID were changed in memory, ReloadConfig   *)
(* succeeds and the new table equals the pre-reload table: same ids in the     *)
(* same order, same fields and runlevel lists, Started and ObjectPID kept.     *)
C20_ReloadOfSameFile ==
    [][(pc = "rl_ret" /\ pc' = "idle" /\ nWrites = 0 /\ nEdits = 0)
          => (rret' = SUCCESS /\ ObjectTable' = pre.T)]_vars

(* C21: when ReloadConfig returns, with either outcome, EnableLogging,         *)
(* DisableCAD and AlignStatusReports have the values they had before the call, *)
(* whatever the new file sets them to.                                         *)
C21_ReloadKeepsToggles ==
    [][(pc = "rl_ret" /\ pc' = "idle")
          => /\ EnableLogging' = pre.EL
             /\ DisableCAD' = pre.CAD
             /\ AlignStatusReports' = pre.ASR]_vars

\* A reload has succeeded on a file that sets the three toggles to the
\* opposite of the values they have.
C21_Witness ==
    /\ pc = "idle" /\ rret = SUCCESS
    /\ SubSeq(Disk, 1, Len(ToggleLines)) = ToggleLines
    /\ EnableLogging /\ DisableCAD /\ ~AlignStatusReports

(* C22: ReloadConfig never reads from standard input: while InitConfig runs    *)
(* on behalf of ReloadConfig it never waits for a key of the operator.         *)
C22_ReloadNeverReadsStdin ==
    ~(caller = "reload" /\ pc = "ic_dump")

(* C23: a parse of a non-empty file that declares no object returns FAILURE,  *)
(* at boot and on reload: once the parse loop has ended with an empty table,   *)
(* InitConfig goes on to the integrity scan and to its return with FAILURE.    *)
C23_NoObjectFails ==
    [][(pc \in {"ic_post", "ic_scan", "ic_dump"} /\ ObjectTable = <<>>)
          => (pc' \in {"ic_scan", "ic_dump"} \/ ret' = FAILURE)]_vars

\* The parse loop of InitConfig runs over the file and ends; what it would
\* have built from other lines, and whether it built that.
ParseStep == pc = "ic_parse" /\ pc' = "ic_post"

ParseOf(lines) == ParseLines([StOf EXCEPT !.C = 0], lines, 1)

SameOutcome(st) ==
    /\ ObjectTable' = st.T
    /\ RunlevelInheritance' = st.R
    /\ PriorityAliasTree' = st.A
    /\ CurRunlevel' = st.RL
    /\ EnableLogging' = st.EL
    /\ DisableCAD' = st.CAD
    /\ AlignStatusReports' = st.ASR
    /\ ShellEnabled' = st.SE
    /\ BlankLogOnBoot' = st.BLB
    /\ Hostname' = st.HN

\* The lines of a file but those of the set S of line numbers.
Without(lines, S) ==
    LET keep == { k \in 1..Len(lines) : k \notin S }
        nth[n \in 0..Len(lines)] ==
            IF n = 0 THEN 0
            ELSE CHOOSE k \in keep : k > nth[n - 1] /\ \A j \in keep : j > nth[n - 1] => k <= j
    IN [n \in 1..Cardinality(keep) |-> lines[nth[n]]]

(* C24: a line whose first token starts with a keyword and goes on with       *)
(* further characters before the separator is not handled as that directive   *)
(* and changes no state: the parse builds what it builds without such lines.  *)
C24_LongerIdentifierIgnored ==
    [][ParseStep =>
         SameOutcome(ParseOf(Without(Disk, { k \in 1..Len(Disk) : Disk[k].rest # "" })))]_vars

\* The line that opens the first object of a file (one past the end when no
\* line does).
FirstObjectID(lines) ==
    LET ids == { k \in 1..Len(lines) :
                   lines[k].hash = "" /\ lines[k].key = "ObjectID" /\ lines[k].sep # "" }
    IN IF ids = {} THEN Len(lines) + 1 ELSE CHOOSE k \in ids : \A j \in ids : k <= j

LateLines(lines, keys) ==
    { k \in 1..Len(lines) :
        /\ k > FirstObjectID(lines)
        /\ lines[k].hash = "" /\ lines[k].rest = "" /\ lines[k].key \in keys }

(* C25: a DefinePriority, RunlevelInherits, DefaultRunlevel or Hostname line  *)
(* after the first ObjectID line of the file is dropped: the parse builds the *)
(* aliases, the inheritance list, CurRunlevel and the hostname, and all else, *)
(* as it does without these lines.                                            *)
C25_LateGlobalsDropped ==
    [][ParseStep =>
         SameOutcome(ParseOf(Without(Disk,
            LateLines(Disk, {"DefinePriority", "RunlevelInherits", "DefaultRunlevel",
                             "Hostname"}))))]_vars

(* C26: a directive line with no separator after the keyword, or with a       *)
(* separator and an empty value, is skipped: it changes no global, opens no   *)
(* object and sets no field of any object.                                    *)
C26_NoValueSkipped ==
    [][ParseStep =>
         SameOutcome(ParseOf(Without(Disk,
            { k \in 1..Len(Disk) :
                /\ Disk[k].hash = "" /\ Disk[k].key # ""
                /\ (Disk[k].sep = "" \/ Disk[k].val = <<>>) })))]_vars

\* The integers the DefinePriority lines before the first object give the
\* alias, the lines that give a priority as a word, the object a line belongs
\* to (0 before the first), and whether a line is its object's last for its key.
AliasesOf(lines, val) ==
    { lines[k].val[2].n : k \in
        { j \in 1..(FirstObjectID(lines) - 1) :
            /\ lines[j].hash = "" /\ lines[j].key = "DefinePriority" /\ lines[j].sep # ""
            /\ Len(lines[j].val) = 2 /\ lines[j].val[2].n >= 0
            /\ <<lines[j].val[1]>> = val } }

AliasLines(lines) ==
    { k \in 1..Len(lines) :
        /\ lines[k].hash = "" /\ lines[k].rest = "" /\ lines[k].sep # ""
        /\ lines[k].key \in {"ObjectStartPriority", "ObjectStopPriority"}
        /\ lines[k].val # <<>> /\ ~AllNumeric(lines[k].val) }

ObjectOfLine(lines, k) ==
    Cardinality({ j \in 1..(k - 1) :
                    lines[j].hash = "" /\ lines[j].key = "ObjectID" /\ lines[j].sep # "" })

LastForKey(lines, k) ==
    \A j \in (k + 1)..Len(lines) :
       ~(/\ lines[j].hash = "" /\ lines[j].key = lines[k].key /\ lines[j].sep # ""
         /\ ObjectOfLine(lines, j) = ObjectOfLine(lines, k))

(* C27: an ObjectStartPriority or ObjectStopPriority line whose value is not  *)
(* all digits and is an alias of an earlier DefinePriority line sets the      *)
(* priority to the alias's integer; one whose value is no defined alias       *)
(* leaves the priority as it is (0 by default): the parse goes as without it. *)
C27_AliasResolved ==
    [][ParseStep =>
         /\ \A k \in AliasLines(Disk) :
               (/\ AliasesOf(Disk, Disk[k].val) # {}
                /\ ObjectOfLine(Disk, k) > 0
                /\ LastForKey(Disk, k))
                  => PriorityOf(ObjectTable'[ObjectOfLine(Disk, k)],
                                Disk[k].key = "ObjectStartPriority")
                        \in AliasesOf(Disk, Disk[k].val)
         /\ SameOutcome(ParseOf(Without(Disk,
               { k \in AliasLines(Disk) : AliasesOf(Disk, Disk[k].val) = {} })))]_vars

\* The stop mode the value of an ObjectStopCommand line stands for.
ClaimedStopMode(val) ==
    IF val = V("PID") THEN STOP_PID
    ELSE IF Len(val) >= 2 /\ val[1] = Str("PIDFILE") THEN STOP_PIDFILE
    ELSE IF val = V("NONE") THEN STOP_NONE
    ELSE STOP_COMMAND

(* C28: ObjectStopCommand sets StopMode to STOP_PID only for the value PID,   *)
(* to STOP_PIDFILE only for PIDFILE <path>, to STOP_NONE only for NONE, and   *)
(* for every other value to STOP_COMMAND with the whole value stored as the   *)
(* stop command.                                                              *)
C28_StopModes ==
    [][ParseStep =>
         \A k \in 1..Len(Disk) :
            (/\ Disk[k].hash = "" /\ Disk[k].key = "ObjectStopCommand"
             /\ Disk[k].rest = "" /\ Disk[k].sep # "" /\ Disk[k].val # <<>>
             /\ ObjectOfLine(Disk, k) > 0
             /\ LastForKey(Disk, k))
               => LET o == ObjectTable'[ObjectOfLine(Disk, k)]
                      mode == ClaimedStopMode(Disk[k].val)
                  IN /\ o.StopMode = mode
                     /\ mode = STOP_COMMAND => o.ObjectStopCommand = Disk[k].val
                     /\ mode = STOP_PIDFILE => o.ObjectPIDFile = Tail(Disk[k].val)]_vars

\* The greatest number of a non-empty set of numbers.
Max(S) == CHOOSE m \in S : \A n \in S : n <= m

(* C29: GetHighestPriority returns the maximum of the phase's priority over   *)
(* all objects of the table, and 0 when there is no table or every object has *)
(* priority 0 for the phase.                                                   *)
C29_HighestIsMaximum ==
    call.op = "GetHighestPriority"
       => call.result =
            Max({0} \cup { PriorityOf(ObjectTable[k], call.want) : k \in 1..Len(ObjectTable) })

\* The highest stop priority was asked for in a table whose second object
\* holds it, and whose first object has a higher start priority.
C29_Witness ==
    /\ call.op = "GetHighestPriority" /\ ~call.want
    /\ Len(ObjectTable) = MaxQueryObjs
    /\ call.result = ObjectTable[2].ObjectStopPriority
    /\ call.result > ObjectTable[1].ObjectStopPriority
    /\ ObjectTable[1].ObjectStartPriority > call.result

(* C30: the priority de-duplication preserves order: of two objects declared *)
(* with non-zero priorities p < q for a phase, the first is published with    *)
(* the lower priority; an object declared with priority 0 for a phase is      *)
(* published with priority 0 for it.                                           *)
C30_DedupKeepsOrder ==
    [][Publishes =>
         LET D == Parsed(Disk).T IN
         \A i, j \in 1..Len(D) : \A want \in BOOLEAN :
            /\ (PriorityOf(D[i], want) # 0 /\ PriorityOf(D[i], want) < PriorityOf(D[j], want))
                  => PriorityOf(ObjectTable'[i], want) < PriorityOf(ObjectTable'[j], want)
            /\ PriorityOf(D[i], want) = 0 => PriorityOf(ObjectTable'[i], want) = 0]_vars

\* A table is published in which an object declared above another one had to
\* move up, from a file in which a third object declares no start priority.
C30_Witness ==
    /\ pc = "idle"
    /\ LET D == Parsed(Disk).T IN
       /\ Len(D) = Len(ObjectTable)
       /\ \E i, j, k \in 1..Len(D) :
             /\ D[i].ObjectStartPriority # 0
             /\ D[i].ObjectStartPriority < D[j].ObjectStartPriority
             /\ ObjectTable[j].ObjectStartPriority > D[j].ObjectStartPriority
             /\ D[k].ObjectStartPriority = 0
             /\ ObjectTable[k].ObjectStopPriority # 0

(* C31: among objects that declare the same non-zero priority for a phase,    *)
(* the published priorities increase with insertion order: of two such        *)
(* objects the one declared earlier ends with the lower priority, however     *)
(* many objects are tied.                                                      *)
C31_TiesInInsertionOrder ==
    [][Publishes =>
         LET D == Parsed(Disk).T IN
         \A i, j \in 1..Len(D) : \A want \in BOOLEAN :
            (i < j /\ PriorityOf(D[i], want) # 0
                   /\ PriorityOf(D[i], want) = PriorityOf(D[j], want))
               => PriorityOf(ObjectTable'[i], want) < PriorityOf(ObjectTable'[j], want)]_vars

(* C32: in EditConfigValue an occurrence of the attribute that is preceded by *)
(* '#' is skipped: when the object's section holds a commented occurrence and *)
(* after it a live, well-formed line of the attribute, the value of the live  *)
(* line is replaced and SUCCESS is returned.                                   *)
C32_CommentedOccurrenceSkipped ==
    [][EditReturns =>
         LET c == call'
             S == LiveLines(c.old, c.id, c.at)
         IN (/\ S # {}
             /\ \E k \in SectionOf(c.old, c.id) :
                   k < FirstOf(S) /\ c.old[k].hash = "#" /\ c.old[k].key = c.at
             /\ c.old[FirstOf(S)].rest = ""
             /\ c.old[FirstOf(S)].sep # ""
             /\ c.old[FirstOf(S)].val # <<>>)
            => /\ c.status = SUCCESS
               /\ Disk' = [c.old EXCEPT ![FirstOf(S)].val = c.v]]_vars

\* The file as the block comments leave it: the lines from a line that begins
\* with ">!>" while no block is open up to the next line that begins with "<!<"
\* are gone, and of that closing line what follows the mark is left.
RECURSIVE Uncommented(_, _, _)
Uncommented(lines, k, open) ==
    IF k > Len(lines) THEN <<>>
    ELSE IF open
         THEN (IF lines[k].hash = "<!<"
               THEN << [lines[k] EXCEPT !.hash = ""] >> \o Uncommented(lines, k + 1, FALSE)
               ELSE Uncommented(lines, k + 1, TRUE))
         ELSE IF lines[k].hash = ">!>"
              THEN Uncommented(lines, k + 1, TRUE)
              ELSE << lines[k] >> \o Uncommented(lines, k + 1, FALSE)

\* A block comment is open when the file of these lines ends.
RECURSIVE OpenAtEnd(_, _, _)
OpenAtEnd(lines, k, open) ==
    IF k > Len(lines) THEN open
    ELSE OpenAtEnd(lines, k + 1,
                   IF open THEN lines[k].hash # "<!<" ELSE lines[k].hash = ">!>")

\* The status InitConfig returns for a file that names a runlevel.
StatusOf(lines) ==
    LET st == Parsed(lines)
        T == EmulateNoWait(DedupPriorities(st.T))
    IN IF st.T = <<>> \/ ~ObjRL_ValidRunlevel(T, st.R, st.RL)
       THEN FAILURE
       ELSE ScanObjects(T, 1, SUCCESS).RetState

InitConfigReturns == pc \in {"ic_scan", "ic_dump"} /\ pc' \in {"idle", "halted", "rl_ret"}

\* C33: block comments.  The parse loop leaves what it would leave for the file
\* without the lines of its block comments, the text after a closing "<!<"
\* being parsed as a line of its own; and with a block still open at the end of
\* the file InitConfig returns the status it returns for that file without the
\* block.
C33_BlockComments ==
    [][/\ ParseStep => SameOutcome(ParseOf(Uncommented(Disk, 1, FALSE)))
       /\ (InitConfigReturns /\ OpenAtEnd(Disk, 1, FALSE))
            => ret' = StatusOf(Uncommented(Disk, 1, FALSE))]_vars

\* A booted table whose file has a closed block comment with a directive in it,
\* a directive after the closing mark, and a second block left open.
C33_Witness ==
    /\ pc = "idle"
    /\ ret = WARNING
    /\ Len(Disk) = 8
    /\ Disk[4].key = "ObjectStartCommand"
    /\ Disk[5].hash = ">!>"
    /\ Disk[6] = L("ObjectEnabled", V("false"))
    /\ Disk[7] = [L("ObjectEnabled", V("true")) EXCEPT !.hash = "<!<"]
    /\ Disk[8].hash = ">!>"
    /\ ObjectTable[1].Enabled = 1

\* C34: after the parse of a file no object has ForceShell set while
\* ShellEnabled is false, wherever the ShellEnabled line stands.
C34_NoForceShellWithoutShell ==
    [][ParseStep =>
         ~(/\ ~ShellEnabled'
           /\ \E k \in 1..Len(ObjectTable') : ObjectTable'[k].ForceShell)]_vars

DelReturnsTrue ==
    /\ pc = "idle"
    /\ ObjectTable' # ObjectTable
    /\ call'.op = "ObjRL_DelRunlevel"
    /\ call'.result

\* C36: once ObjRL_DelRunlevel(r, o) has returned true, o is not in r by its
\* own list (ObjRL_CheckRunlevel without inheritance is false).
C36_DeletedRunlevelGone ==
    [][DelReturnsTrue
         => ~ObjRL_CheckRunlevel(RunlevelInheritance, <<call'.rl>>,
                                 ObjectTable'[call'.obj], FALSE)]_vars

\* C37: in the live table every object that is not halt-only has a runlevel,
\* whatever runlevels were added and deleted since it was published.
C37_RunlevelLeft ==
    pc = "idle" =>
       \A k \in 1..Len(ObjectTable) :
          ~ObjectTable[k].HaltCmdOnly => ObjectTable[k].ObjectRunlevels # <<>>

\* C35: when ReloadConfig returns, with either outcome, CurRunlevel is what it
\* was before the reload, also when the file names another DefaultRunlevel.
C35_ReloadKeepsCurRunlevel ==
    [][(pc = "rl_ret" /\ pc' = "idle") => CurRunlevel' = pre.RL]_vars

\* A reload has succeeded on a file whose DefaultRunlevel line names a runlevel
\* that is not the current one.
C35_Witness ==
    /\ pc = "idle"
    /\ rret = SUCCESS
    /\ nReloads > 0
    /\ \E k \in 1..Len(Disk) :
          /\ Disk[k].hash = "" /\ Disk[k].key = "DefaultRunlevel"
          /\ Disk[k].val # <<>> /\ Disk[k].val # CurRunlevel

\* C38: a ReloadConfig that fails leaves ShellEnabled, BlankLogOnBoot and
\* Hostname as they were before the reload, whatever the rejected file holds.
C38_FailedReloadKeepsGlobals ==
    [][ReloadFails =>
         /\ ShellEnabled' = pre.SE
         /\ BlankLogOnBoot' = pre.BLB
         /\ Hostname' = pre.HN]_vars

EditStep ==
    \/ pc = "idle" /\ nEdits' # nEdits
    \/ pc = "ec_write"

\* C39: EditConfigValue changes only the file.  Its steps leave the table, the
\* inheritance relation, the current runlevel and the globals as they are, with
\* either outcome; once a value has been edited the live table changes in the
\* steps of a ReloadConfig only.
C39_EditChangesOnlyFile ==
    [][/\ EditStep => UNCHANGED <<ObjectTable, RunlevelInheritance, CurRunlevel, globals>>
       /\ (nEdits > 0 /\ ObjectTable' # ObjectTable)
            => pc \in {"rl_shutdown", "ic_parse", "ic_post", "ic_scan", "ic_dump", "rl_ret"}]_vars

\* An edit has set ObjectEnabled of an object to false in the file, and a
\* reload that succeeded has brought the value into the live table, in which
\* the object was enabled before.
C39_Witness ==
    /\ pc = "idle"
    /\ call.op = "EditConfigValue" /\ call.status = SUCCESS
    /\ call.at = "ObjectEnabled" /\ call.v = V("false")
    /\ rret = SUCCESS
    /\ \E k \in 1..Len(ObjectTable) :
          /\ ObjectTable[k].ObjectID = call.id
          /\ ObjectTable[k].Enabled = 0
          /\ k <= Len(pre.T) /\ pre.T[k].Enabled = 1

\* What the supervisor's walk over a phase returns: the object of each
\* priority from 1 to GetHighestPriority, looked up with no runlevel.
PhaseWalk(want) ==
    [ p \in 1..GetHighestPriority(ObjectTable, want) |->
        GetObjectByPriority(ObjectTable, RunlevelInheritance, NULL, want, p) ]

\* C40: in a published table and each phase, the walk over the priorities 1 to
\* GetHighestPriority with no runlevel returns every object that has a priority
\* in the phase exactly once, and never an object of priority 0.
C40_WalkVisitsEachOnce ==
    pc = "idle" =>
       \A want \in BOOLEAN :
          LET W == PhaseWalk(want) IN
          /\ \A k \in 1..Len(ObjectTable) :
                PriorityOf(ObjectTable[k], want) # 0
                   => Cardinality({ p \in DOMAIN W : W[p] = k }) = 1
          /\ \A p \in DOMAIN W :
                W[p] # 0 => PriorityOf(ObjectTable[W[p]], want) # 0

\* A published table of two objects that declared the same start priority, of
\* which the walk of the start phase returns both, and a lookup with no
\* runlevel has returned an object.
C40_Witness ==
    /\ pc = "idle"
    /\ Len(ObjectTable) = 2
    /\ Cardinality(Declared(Disk, "ObjectStartPriority")) = 1
    /\ { PhaseWalk(TRUE)[p] : p \in DOMAIN PhaseWalk(TRUE) } = {1, 2}
    /\ call.op = "GetObjectByPriority" /\ call.rl = NULL /\ call.result # 0

====
